---------------------------- MODULE Spec2Model ----------------------------
(***************************************************************************)
(* MA-Grader: the batch pipeline of backend/server.py and the per-student  *)
(* grading loop of backend/orchestrator/phase1_grade_all.py.               *)
(*                                                                         *)
(* The server is one asyncio event loop.  The request handlers and the     *)
(* background coroutine run_pipeline_task contain no await, so each runs   *)
(* to its end once the loop has picked it: a handler runs only while the   *)
(* loop is free (pc = "none").  A background task is queued by             *)
(* start_grading and picked by the loop after the response has been sent;  *)
(* other requests may be served in between.                                *)
(*                                                                         *)
(* SpecServer is that server alone.  Spec adds the one thing the state     *)
(* dict's contract allows from outside the loop: a holder of the dict sets *)
(* cancel_requested while the grading functions poll it.                   *)
(*                                                                         *)
(* The workspace override that start_grading sets and the folders and      *)
(* files the steps create are not part of the state; a step that can fail  *)
(* is modelled by its two outcomes, returning and raising.                 *)
(***************************************************************************)
EXTENDS Integers, Sequences, FiniteSets, TLC

\* ------------------------------------------------------------------ bounds
MaxStudents == 2      \* submissions found in one course folder
MaxPending  == 2      \* background tasks queued and not yet picked by the loop
MaxLogs     == 1      \* log entries after which POST /cancel is no longer issued

\* -------------------------------------------------------------- constants
None == "None"

REQUIRED_SHEETS == <<"Income Analysis", "Unit Conversions", "Currency Conversion">>

RequiredSet == {REQUIRED_SHEETS[i] : i \in DOMAIN REQUIRED_SHEETS}

\* Sheet names a submitted workbook may carry.
SheetNames ==
    {"Income Analysis", " income analysis", "Unit Conversions",
     "UNIT CONVERSIONS ", "Currency Conversion", "Sheet1"}

\* name.lower().strip() on the names above and on those of an MA3 workbook.
LowerStrip(name) ==
    CASE name = "Income Analysis"       -> "income analysis"
      [] name = " income analysis"      -> "income analysis"
      [] name = "Unit Conversions"      -> "unit conversions"
      [] name = "UNIT CONVERSIONS "     -> "unit conversions"
      [] name = "Currency Conversion"   -> "currency conversion"
      [] name \in {"Analysis", "ANALYSIS", " Analysis"} -> "analysis"
      [] name \in {"Visualization", "visualization "} -> "visualization"
      [] OTHER                          -> "sheet1"

\* validate_required_sheets: required name -> actual name found, or None.
validate_required_sheets(sheetnames) ==
    [r \in RequiredSet |->
        IF \E a \in sheetnames : LowerStrip(a) = LowerStrip(r)
        THEN CHOOSE a \in sheetnames : LowerStrip(a) = LowerStrip(r)
        ELSE None]

missing_sheets(sheet_map) == {r \in RequiredSet : sheet_map[r] = None}

\* ---------------------------------------------------------------- inputs
AllSheets == {"Income Analysis", "UNIT CONVERSIONS ", "Currency Conversion"}

\* One student's documents as the grading loop meets them:
\*   submission  "ok" | "corrupt"   (load_workbook of the submission)
\*   grading     "ok" | "missing"   (load_workbook of the grading sheet)
\*   sheetnames  the submission's sheet names
\*   raises      required sheets whose tab grader or writer raises on this
\*               student's workbook in particular
\*   save_ok     whether grading_wb.save succeeds
StudentKinds ==
    { [submission |-> "ok", grading |-> "ok", sheetnames |-> AllSheets,
       raises |-> {}, save_ok |-> TRUE],
      [submission |-> "corrupt", grading |-> "ok", sheetnames |-> AllSheets,
       raises |-> {}, save_ok |-> TRUE],
      [submission |-> "ok", grading |-> "missing", sheetnames |-> AllSheets,
       raises |-> {}, save_ok |-> TRUE],
      [submission |-> "ok", grading |-> "ok",
       sheetnames |-> {" income analysis", "Unit Conversions", "Sheet1"},
       raises |-> {}, save_ok |-> TRUE],
      [submission |-> "ok", grading |-> "ok", sheetnames |-> AllSheets,
       raises |-> {"Unit Conversions"}, save_ok |-> TRUE],
      [submission |-> "ok", grading |-> "ok", sheetnames |-> AllSheets,
       raises |-> {}, save_ok |-> FALSE] }

\* Texts of the exceptions the pipeline steps raise (every raise site passes
\* a message): one that begins with the character U+2713, which is outside
\* ASCII, and one that names a codec.
ErrMsgs == {"<U+2713> grading sheet missing", "codec can't encode character"}

\* text.encode('ascii', errors='replace').decode('ascii'): every character
\* outside ASCII becomes "?", the others stay.
_sanitize_for_windows(text) ==
    CASE text = "<U+2713> grading sheet missing" -> "? grading sheet missing"
      [] OTHER -> text

\* generate_course_folders: graded_output/<course_label>
GradedPath(course_label) ==
    CASE course_label = "MAT-144" -> "graded_output/MAT-144"
      [] OTHER -> "graded_output/"

VARIABLES
    \* pipeline_state
    status, cancel_requested, current_step, progress, logs, error, output_path,
    \* background tasks queued on the loop
    pending,
    \* run_pipeline_task and the phase functions it calls
    pc, graded_path, batch, idx, idx2,
    graded_count, error_count, skipped_count,
    student_wb, grading_wb, open_handles, ws_grading, outputs,
    warnings, errors_logged, export_error_count,
    \* one evaluation of a grader function: its name, input, return value
    fn, arg, ret, returned

state_vars == <<status, cancel_requested, current_step, progress, logs, error,
                output_path>>

server_vars == <<pending>>

task_vars == <<pc, graded_path, batch, idx, idx2, graded_count, error_count,
               skipped_count, student_wb, grading_wb, open_handles,
               ws_grading, outputs, warnings, errors_logged,
               export_error_count>>

grader_vars == <<fn, arg, ret, returned>>

vars == <<state_vars, server_vars, task_vars, grader_vars>>

\* pipeline_state as the module builds it, no task queued or running.
PipelineIdle ==
    /\ status = "idle"
    /\ cancel_requested = FALSE
    /\ current_step = None
    /\ progress = 0
    /\ logs = <<>>
    /\ error = None
    /\ output_path = None
    /\ pending = <<>>
    /\ pc = "none"
    /\ graded_path = None
    /\ batch = <<>>
    /\ idx = 0
    /\ idx2 = 0
    /\ graded_count = 0
    /\ error_count = 0
    /\ skipped_count = 0
    /\ student_wb = 0
    /\ grading_wb = 0
    /\ open_handles = {}
    /\ ws_grading = {}
    /\ outputs = {}
    /\ warnings = 0
    /\ errors_logged = 0
    /\ export_error_count = 0

\* No grader function is under evaluation.
GraderIdle ==
    /\ fn = "none"
    /\ arg = <<>>
    /\ ret = <<>>
    /\ returned = FALSE

Init == PipelineIdle /\ GraderIdle

\* LogCapture.write: one entry per print whose text is not blank.  logs holds
\* the entries server.py itself adds; the lines printed by the functions it
\* calls (chart export, cleanup) are not kept in the model.
LogCapture_write(l, msg) == Append(l, msg)

\* The event loop is not inside run_pipeline_task.
LoopFree == pc = "none"


\* ------------------------------------------------------------- handlers

\* GET /state: returns pipeline_state, writes nothing.
get_state ==
    /\ LoopFree
    /\ UNCHANGED vars

\* POST /reset: no condition on the status.
reset_state ==
    /\ LoopFree
    /\ status' = "idle"
    /\ cancel_requested' = FALSE
    /\ current_step' = None
    /\ progress' = 0
    /\ logs' = <<>>
    /\ error' = None
    /\ output_path' = None
    /\ UNCHANGED <<pending, task_vars, grader_vars>>

\* POST /cancel
cancel_pipeline ==
    /\ LoopFree
    /\ Len(logs) < MaxLogs
    /\ IF status # "running"
       THEN UNCHANGED state_vars
       ELSE /\ cancel_requested' = TRUE
            /\ logs' = Append(logs, "[CANCEL]")
            /\ UNCHANGED <<status, current_step, progress, error, output_path>>
    /\ UNCHANGED <<pending, task_vars, grader_vars>>

\* POST /grade with request (zip_exists, course_label, workspace_path,
\* workspace_isdir).  An accepted request resets the state to running and
\* queues run_pipeline_task(zip_path, course_label).
start_grading(zip_exists, course_label, workspace_path, workspace_isdir) ==
    /\ LoopFree
    /\ IF status = "running"
       THEN UNCHANGED <<state_vars, pending>>
       ELSE IF ~zip_exists \/ course_label = ""
                 \/ (workspace_path # None /\ ~workspace_isdir)
       THEN UNCHANGED <<state_vars, pending>>
       ELSE /\ Len(pending) < MaxPending
            /\ status' = "running"
            /\ cancel_requested' = FALSE
            /\ current_step' = "initializing"
            /\ progress' = 0
            /\ logs' = <<>>
            /\ error' = None
            /\ output_path' = None
            /\ pending' = Append(pending, course_label)
    /\ UNCHANGED <<task_vars, grader_vars>>

\* The loop picks the oldest queued background task: run_pipeline_task is
\* entered with its locals fresh.
run_pipeline_task ==
    /\ LoopFree
    /\ pending # <<>>
    /\ pending' = Tail(pending)
    /\ pc' = "s1"
    /\ graded_path' = GradedPath(Head(pending))
    /\ UNCHANGED <<batch, idx, idx2, graded_count, error_count, skipped_count,
                   student_wb, grading_wb, open_handles, ws_grading, outputs,
                   warnings, errors_logged, export_error_count>>
    /\ UNCHANGED <<state_vars, grader_vars>>

\* ------------------------------------------------- run_pipeline_task body

\* error_msg of the except block: the sanitized text, with the hint added
\* when the exception text has "encode" or "codec" in it.
error_msg(e) ==
    IF e = "codec can't encode character"
    THEN "codec can't encode character [Hint: Check student files]"
    ELSE _sanitize_for_windows(e)

\* except Exception as e ... finally: the task returns with status error.
PipelineError(e) ==
    /\ status' = "error"
    /\ current_step' = "Error"
    /\ error' = error_msg(e)
    /\ logs' = LogCapture_write(logs, "[ERROR]")
    /\ pc' = "finally"

\* One numbered step of the task: progress and current_step are set, then
\* the step's function runs and either returns or raises.
PipelineStep(at, n, label, next) ==
    /\ pc = at
    /\ progress' = n
    /\ \/ /\ current_step' = label
          /\ pc' = next
          /\ UNCHANGED <<status, logs, error>>
       \/ \E e \in ErrMsgs : PipelineError(e)
    /\ UNCHANGED <<cancel_requested, output_path, server_vars, grader_vars>>

TaskLocalsUnchanged ==
    UNCHANGED <<graded_path, batch, idx, idx2, graded_count, error_count,
                skipped_count, student_wb, grading_wb, open_handles,
                ws_grading, outputs,
                warnings, errors_logged, export_error_count>>

\* Step 1
ensure_workspace_assets ==
    /\ PipelineStep("s1", 1, "Preparing workspace assets...", "s2")
    /\ TaskLocalsUnchanged

\* Step 2
generate_course_folders ==
    /\ PipelineStep("s2", 2, "Creating course folders...", "s3")
    /\ TaskLocalsUnchanged

\* Step 3
import_zip_to_student_groups ==
    /\ PipelineStep("s3", 3, "Importing student submissions...", "s4")
    /\ TaskLocalsUnchanged

\* Step 4
create_grading_sheets_from_folder ==
    /\ PipelineStep("s4", 4, "Creating grading sheets...", "s5")
    /\ TaskLocalsUnchanged

\* ------------------------------------- phase1_grade_all_students (step 5)

\* pipeline_state and pipeline_state.get("cancel_requested")
CancelSeen == cancel_requested

Phase1Frame ==
    UNCHANGED <<state_vars, server_vars, grader_vars, graded_path, idx2, export_error_count>>

\* The documents a reference holds open (0 is Python's None).
Handle(ref, doc) == IF ref = 0 THEN {} ELSE {<<ref, doc>>}

\* Step 5 up to the loop: os.listdir(submissions_path) finds the batch.
phase1_grade_all_students ==
    /\ pc = "s5"
    /\ progress' = 5
    /\ \/ /\ current_step' = "Grading formulas..."
          /\ \E n \in 0..MaxStudents : \E b \in [1..n -> StudentKinds] : batch' = b
          /\ pc' = "p1_loop"
          /\ UNCHANGED <<status, logs, error>>
       \/ /\ \E e \in ErrMsgs : PipelineError(e)
          /\ UNCHANGED batch
    /\ UNCHANGED <<cancel_requested, output_path, server_vars, grader_vars, graded_path,
                   idx, idx2, graded_count, error_count, skipped_count,
                   student_wb, grading_wb, open_handles, ws_grading, outputs,
                   warnings, errors_logged, export_error_count>>

\* for idx, filename in enumerate(student_files, 1): the cancellation check,
\* then student_wb = None, grading_wb = None.
phase1_next_student ==
    /\ pc = "p1_loop"
    /\ IF idx = Len(batch)
       THEN /\ pc' = "chk5"
            /\ UNCHANGED <<idx, warnings, student_wb, grading_wb, ws_grading>>
       ELSE IF CancelSeen
       THEN /\ warnings' = warnings + 1
            /\ pc' = "chk5"
            /\ UNCHANGED <<idx, student_wb, grading_wb, ws_grading>>
       ELSE /\ idx' = idx + 1
            /\ student_wb' = 0
            /\ grading_wb' = 0
            /\ ws_grading' = {}
            /\ pc' = "p1_load_submission"
            /\ UNCHANGED warnings
    /\ UNCHANGED <<batch, graded_count, error_count, skipped_count, outputs,
                   errors_logged, open_handles>>
    /\ Phase1Frame

\* student_wb = load_workbook(submission_file, data_only=False)
phase1_load_submission ==
    /\ pc = "p1_load_submission"
    /\ IF batch[idx].submission = "corrupt"
       THEN /\ pc' = "p1_except"
            /\ UNCHANGED <<student_wb, open_handles>>
       ELSE /\ pc' = "p1_load_grading"
            /\ student_wb' = idx
            /\ open_handles' = open_handles \cup {<<idx, "submission">>}
    /\ UNCHANGED <<batch, idx, graded_count, error_count, skipped_count,
                   grading_wb, ws_grading, outputs, warnings, errors_logged>>
    /\ Phase1Frame

\* grading_wb = load_workbook(grading_file); ws_grading = grading_wb[...]
phase1_load_grading ==
    /\ pc = "p1_load_grading"
    /\ IF batch[idx].grading = "missing"
       THEN /\ pc' = "p1_except"
            /\ UNCHANGED <<grading_wb, open_handles>>
       ELSE /\ pc' = "p1_grade"
            /\ grading_wb' = idx
            /\ open_handles' = open_handles \cup {<<idx, "grading">>}
    /\ UNCHANGED <<batch, idx, graded_count, error_count, skipped_count,
                   student_wb, ws_grading, outputs, warnings, errors_logged>>
    /\ Phase1Frame

\* The tabs whose try block ends in its except clause. grade_income_analysis
\* ends with ValueError for every worksheet: it unpacks the three values
\* check_scatterplot returns into two names.
Raises(student) == student.raises \cup {"Income Analysis"}

\* The tabs whose scores reach the in-memory grading sheet: the sheet is
\* present and neither its grader nor its writer raises.
TabsWritten(student) ==
    {r \in RequiredSet :
        /\ validate_required_sheets(student.sheetnames)[r] # None
        /\ r \notin Raises(student)}

\* Tabs whose inner try block logs a warning.
TabsFailed(student) ==
    {r \in RequiredSet :
        /\ validate_required_sheets(student.sheetnames)[r] # None
        /\ r \in Raises(student)}

\* validate_required_sheets, log_missing_sheets, then the three tabs.
phase1_grade_tabs ==
    /\ pc = "p1_grade"
    /\ LET student == batch[idx]
           missing == missing_sheets(validate_required_sheets(student.sheetnames))
       IN  /\ warnings' = warnings + (IF missing # {} THEN 1 ELSE 0)
                                   + Cardinality(TabsFailed(student))
           /\ skipped_count' = skipped_count + Cardinality(missing)
           /\ ws_grading' = TabsWritten(student)
    /\ pc' = "p1_save"
    /\ UNCHANGED <<batch, idx, graded_count, error_count, student_wb,
                   grading_wb, open_handles, outputs, errors_logged>>
    /\ Phase1Frame

\* A loop that also polled the flag before saving and abandoned the student.
phase1_save_polls_flag ==
    /\ pc = "p1_save"
    /\ IF CancelSeen
       THEN /\ pc' = "chk5"
            /\ UNCHANGED <<outputs, graded_count>>
       ELSE IF batch[idx].save_ok
       THEN /\ outputs' = outputs \cup {<<idx, ws_grading>>}
            /\ graded_count' = graded_count + 1
            /\ pc' = "p1_finally"
       ELSE /\ pc' = "p1_except"
            /\ UNCHANGED <<outputs, graded_count>>
    /\ UNCHANGED <<batch, idx, error_count, skipped_count, student_wb,
                   grading_wb, open_handles, ws_grading, warnings,
                   errors_logged>>
    /\ Phase1Frame

\* grading_wb.save(grading_file); graded_count += 1
phase1_save ==
    /\ pc = "p1_save"
    /\ IF batch[idx].save_ok
       THEN /\ outputs' = outputs \cup {<<idx, ws_grading>>}
            /\ graded_count' = graded_count + 1
            /\ pc' = "p1_finally"
       ELSE /\ pc' = "p1_except"
            /\ UNCHANGED <<outputs, graded_count>>
    /\ UNCHANGED <<batch, idx, error_count, skipped_count, student_wb,
                   grading_wb, open_handles, ws_grading, warnings,
                   errors_logged>>
    /\ Phase1Frame

\* An except block that let the failure out of the loop, to the task's own
\* except block.
phase1_except_propagates ==
    /\ pc = "p1_except"
    /\ errors_logged' = errors_logged + 1
    /\ error_count' = error_count + 1
    /\ \E e \in ErrMsgs : PipelineError(e)
    /\ UNCHANGED <<progress, cancel_requested, output_path, server_vars, grader_vars>>
    /\ UNCHANGED <<graded_path, batch, idx, idx2, graded_count, skipped_count,
                   student_wb, grading_wb, open_handles, ws_grading, outputs,
                   warnings, export_error_count>>

\* An except block that also saved whatever the pass had written so far.
phase1_except_saves_partial ==
    /\ pc = "p1_except"
    /\ errors_logged' = errors_logged + 1
    /\ error_count' = error_count + 1
    /\ outputs' = outputs \cup {<<idx, ws_grading>>}
    /\ pc' = "p1_finally"
    /\ UNCHANGED <<batch, idx, graded_count, skipped_count, student_wb,
                   grading_wb, open_handles, ws_grading, warnings>>
    /\ Phase1Frame

\* except Exception as e: logger.error(...); error_count += 1
phase1_except ==
    /\ pc = "p1_except"
    /\ errors_logged' = errors_logged + 1
    /\ error_count' = error_count + 1
    /\ pc' = "p1_finally"
    /\ UNCHANGED <<batch, idx, graded_count, skipped_count, student_wb,
                   grading_wb, open_handles, ws_grading, outputs, warnings>>
    /\ Phase1Frame

\* A loop that closed the documents only after a pass whose grading sheet
\* had been opened, as a close at the end of the try block would.
phase1_finally_close_on_success ==
    /\ pc = "p1_finally"
    /\ open_handles' = IF grading_wb = 0
                       THEN open_handles
                       ELSE (open_handles \ Handle(student_wb, "submission"))
                                \ Handle(grading_wb, "grading")
    /\ UNCHANGED <<student_wb, grading_wb>>
    /\ pc' = "p1_loop"
    /\ UNCHANGED <<batch, idx, graded_count, error_count, skipped_count,
                   ws_grading, outputs, warnings, errors_logged>>
    /\ Phase1Frame

\* finally: student_wb.close() and grading_wb.close(), each if not None.
\* The references themselves are rebound by the next pass of the loop.
phase1_finally ==
    /\ pc = "p1_finally"
    /\ open_handles' = (open_handles \ Handle(student_wb, "submission"))
                            \ Handle(grading_wb, "grading")
    /\ UNCHANGED <<student_wb, grading_wb>>
    /\ pc' = "p1_loop"
    /\ UNCHANGED <<batch, idx, graded_count, error_count, skipped_count,
                   ws_grading, outputs, warnings, errors_logged>>
    /\ Phase1Frame

\* A check that consumed the flag when it acted on it.
CancelCheck_consumes_flag(at, next, where) ==
    /\ pc = at
    /\ IF CancelSeen
       THEN /\ status' = "cancelled"
            /\ current_step' = "Cancelled"
            /\ logs' = LogCapture_write(logs, "[CANCELLED]")
            /\ cancel_requested' = FALSE
            /\ pc' = "finally"
       ELSE /\ pc' = next
            /\ UNCHANGED <<status, current_step, logs, cancel_requested>>
    /\ UNCHANGED <<progress, error, output_path, server_vars, grader_vars>>
    /\ TaskLocalsUnchanged

\* if pipeline_state.get("cancel_requested"): status = "cancelled"; return
CancelCheck(at, next, where) ==
    /\ pc = at
    /\ IF CancelSeen
       THEN /\ status' = "cancelled"
            /\ current_step' = "Cancelled"
            /\ logs' = LogCapture_write(logs, "[CANCELLED]")
            /\ pc' = "finally"
       ELSE /\ pc' = next
            /\ UNCHANGED <<status, current_step, logs>>
    /\ UNCHANGED <<cancel_requested, progress, error, output_path, server_vars, grader_vars>>
    /\ TaskLocalsUnchanged

\* Check for cancellation after the grading phase
check_cancel_after_grading == CancelCheck("chk5", "s6", "grading phase")

\* --------------------------------------- phase2_export_all_charts (step 6)

\* Step 6 up to the loop: ensure_dir, os.listdir(submissions_path).
phase2_export_all_charts ==
    /\ PipelineStep("s6", 6, "Exporting charts...", "p2_loop")
    /\ idx2' = 0
    /\ UNCHANGED <<graded_path, batch, idx, graded_count, error_count,
                   skipped_count, student_wb, grading_wb, open_handles,
                   ws_grading, outputs, warnings, errors_logged,
                   export_error_count>>

\* One pass of the export loop: the cancellation check, then
\* export_chart_to_image, which prints one line or raises.
phase2_next_student ==
    /\ pc = "p2_loop"
    /\ IF idx2 = Len(batch)
       THEN /\ pc' = "chk6"
            /\ UNCHANGED <<idx2, warnings, export_error_count>>
       ELSE IF CancelSeen
       THEN /\ warnings' = warnings + 1
            /\ pc' = "chk6"
            /\ UNCHANGED <<idx2, export_error_count>>
       ELSE /\ idx2' = idx2 + 1
            /\ pc' = "p2_loop"
            /\ \/ UNCHANGED <<warnings, export_error_count>>
               \/ /\ warnings' = warnings + 1
                  /\ export_error_count' = export_error_count + 1
    /\ UNCHANGED <<state_vars, server_vars, grader_vars, graded_path, batch, idx,
                   graded_count, error_count, skipped_count, student_wb,
                   grading_wb, open_handles, ws_grading, outputs,
                   errors_logged>>

\* A task that went from the check after chart export straight to cleanup.
check_cancel_skips_insert == CancelCheck("chk6", "s8", "chart export")

\* Check for cancellation after chart export
check_cancel_after_export == CancelCheck("chk6", "s7", "chart export")

\* Step 7
phase3_insert_all_charts ==
    /\ PipelineStep("s7", 7, "Inserting charts into grading sheets...", "s8")
    /\ TaskLocalsUnchanged

\* Step 8, first half: ensure_dir("temp_charts"), phase4_cleanup_temp.
phase4_cleanup_temp ==
    /\ pc = "s8"
    /\ progress' = 8
    /\ \/ /\ current_step' = "Building instructor master workbook..."
          /\ pc' = "s8_master"
          /\ UNCHANGED <<status, logs, error>>
       \/ \E e \in ErrMsgs : PipelineError(e)
    /\ UNCHANGED <<cancel_requested, output_path, server_vars, grader_vars>>
    /\ TaskLocalsUnchanged

\* A completion block that reported completed without the output location.
build_instructor_master_workbook_no_output ==
    /\ pc = "s8_master"
    /\ \/ /\ status' = "completed"
          /\ current_step' = "Complete!"
          /\ logs' = LogCapture_write(logs, "[SUCCESS]")
          /\ pc' = "finally"
          /\ UNCHANGED <<error, output_path>>
       \/ /\ \E e \in ErrMsgs : PipelineError(e)
          /\ UNCHANGED output_path
    /\ UNCHANGED <<cancel_requested, progress, server_vars, grader_vars>>
    /\ TaskLocalsUnchanged

\* Step 8, second half, and the completion block.
build_instructor_master_workbook ==
    /\ pc = "s8_master"
    /\ \/ /\ status' = "completed"
          /\ current_step' = "Complete!"
          /\ output_path' = graded_path
          /\ logs' = LogCapture_write(logs, "[SUCCESS]")
          /\ pc' = "finally"
          /\ UNCHANGED error
       \/ /\ \E e \in ErrMsgs : PipelineError(e)
          /\ UNCHANGED output_path
    /\ UNCHANGED <<cancel_requested, progress, server_vars, grader_vars>>
    /\ TaskLocalsUnchanged

\* finally: sys.stdout = old_stdout; the coroutine returns, its locals are
\* gone and the loop is free again.
task_return ==
    /\ pc = "finally"
    /\ pc' = "none"
    /\ graded_path' = None
    /\ batch' = <<>>
    /\ idx' = 0
    /\ idx2' = 0
    /\ graded_count' = 0
    /\ error_count' = 0
    /\ skipped_count' = 0
    /\ student_wb' = 0
    /\ grading_wb' = 0
    /\ open_handles' = {}
    /\ ws_grading' = {}
    /\ outputs' = {}
    /\ warnings' = 0
    /\ errors_logged' = 0
    /\ export_error_count' = 0
    /\ UNCHANGED <<state_vars, server_vars, grader_vars>>

\* ------------------------------------------------------------ environment

\* A holder of the state dict sets the flag while the task is running.
ExternalSetCancel ==
    /\ pc # "none"
    /\ ~cancel_requested
    /\ cancel_requested' = TRUE
    /\ UNCHANGED <<status, current_step, progress, logs, error, output_path,
                   server_vars, grader_vars, task_vars>>

\* ---------------------------------------------------------- specification
Handlers ==
    \/ get_state
    \/ reset_state
    \/ cancel_pipeline
    \/ \E zip_exists \in BOOLEAN, course_label \in {"", "MAT-144"},
          workspace_path \in {None, "ws"}, workspace_isdir \in BOOLEAN :
          start_grading(zip_exists, course_label, workspace_path, workspace_isdir)

Task ==
    \/ run_pipeline_task
    \/ ensure_workspace_assets
    \/ generate_course_folders
    \/ import_zip_to_student_groups
    \/ create_grading_sheets_from_folder
    \/ phase1_grade_all_students
    \/ phase1_next_student
    \/ phase1_load_submission
    \/ phase1_load_grading
    \/ phase1_grade_tabs
    \/ phase1_save
    \/ phase1_except
    \/ phase1_finally
    \/ check_cancel_after_grading
    \/ phase2_export_all_charts
    \/ phase2_next_student
    \/ check_cancel_after_export
    \/ phase3_insert_all_charts
    \/ phase4_cleanup_temp
    \/ build_instructor_master_workbook
    \/ task_return

NextServer == Handlers \/ Task

Next == NextServer \/ ExternalSetCancel

SpecServer == Init /\ [][NextServer]_vars

Spec == Init /\ [][Next]_vars

\* ============================================================ grader functions
\*
\* A grader function is modelled as an operator and is evaluated by one
\* action: Init of SpecGraders draws the function and its input, the action
\* stores what the function returns.

\* ------------------------------------------------------------------ bounds
MaxOffset == 4        \* rows of a candidate range lie this near the expected rows

\* ------------------------------------- graders/ma3_analysis/check_statistics
\* Credit multipliers, in hundredths.
CREDIT_FULL == 100

CREDIT_RANGE_OFFSET == 75

CREDIT_COMMA_NOT_COLON == 50

CREDIT_NONE == 0

\* A formula is the sequence of its tokens.  A symbol or a function name is
\* its text; a cell reference is its column, its row and whether a "$" stands
\* before the column (dc) and before the row (dr).
Sym(text) == [k |-> "sym", v |-> text, row |-> 0, dc |-> FALSE, dr |-> FALSE]

FnName(text) == [k |-> "name", v |-> text, row |-> 0, dc |-> FALSE, dr |-> FALSE]

Ref(col, row, dc, dr) == [k |-> "ref", v |-> col, row |-> row, dc |-> dc, dr |-> dr]

Abs(x) == IF x < 0 THEN -x ELSE x

\* str.upper() on the texts of the tokens used.
Upper(text) ==
    CASE text = "average" -> "AVERAGE"
      [] text = "slope" -> "SLOPE"
      [] text = "_xlfn.STDEV.S" -> "_XLFN.STDEV.S"
      [] text = "b" -> "B"
      [] OTHER -> text

NotSpace(t) == ~(t.k = "sym" /\ t.v = " ")

\* formula.replace(" ", "").upper(), "" for an empty formula
_normalize_formula(formula) ==
    LET kept == SelectSeq(formula, NotSpace)
    IN  [i \in DOMAIN kept |-> [kept[i] EXCEPT !.v = Upper(@)]]

\* re.match(r'^=([A-Z_.]+)\(', normalized): the name between "=" and "(".
\* A name with the _XLFN. prefix is letters, "_" and "." too, so the first
\* pattern returns it whole and the second pattern is never tried on it.
_extract_function_name(formula) ==
    IF formula = <<>> \/ formula[1] # Sym("=")
    THEN ""
    ELSE LET normalized == _normalize_formula(formula)
         IN  IF /\ Len(normalized) >= 3
                /\ normalized[2].k = "name"
                /\ normalized[3] = Sym("(")
             THEN normalized[2].v
             ELSE ""

IsRefOf(t, col) == t.k = "ref" /\ t.v = col

\* re.search(rf'\$?{col}\$?\d+,\$?{col}\$?\d+', normalized)
_detect_comma_instead_of_colon(formula, expected_col) ==
    LET normalized == _normalize_formula(formula)
    IN  \E i \in 1..(Len(normalized) - 2) :
            /\ IsRefOf(normalized[i], expected_col)
            /\ normalized[i + 1] = Sym(",")
            /\ IsRefOf(normalized[i + 2], expected_col)

\* Positions where rf'\$?{col}\$?(\d+):\$?{col}\$?(\d+)' matches.
RangeMatches(normalized, expected_col) ==
    {i \in 1..(Len(normalized) - 2) :
        /\ IsRefOf(normalized[i], expected_col)
        /\ normalized[i + 1] = Sym(":")
        /\ IsRefOf(normalized[i + 2], expected_col)}

\* re.search takes the leftmost match; both offsets within the tolerance and
\* not both zero.
_detect_range_offset(formula, expected_col, expected_start, expected_end, tolerance) ==
    LET normalized == _normalize_formula(formula)
        matches == RangeMatches(normalized, expected_col)
    IN  IF matches = {}
        THEN FALSE
        ELSE LET i == CHOOSE x \in matches : \A y \in matches : x <= y
                 start_offset == Abs(normalized[i].row - expected_start)
                 end_offset == Abs(normalized[i + 2].row - expected_end)
             IN  IF start_offset = 0 /\ end_offset = 0
                 THEN FALSE
                 ELSE start_offset <= tolerance /\ end_offset <= tolerance

\* col_map
col_map(col) ==
    CASE col = "G" -> "B"
      [] col = "H" -> "C"
      [] col = "I" -> "D"
      [] OTHER -> ""

\* pattern in normalized, for the pattern [$]col[$]14:[$]col[$]63 written
\* in one style <<dc, dr>>. The text of the first reference ends with the
\* pattern's reference: a "$" the pattern lacks before the column may stand
\* in the text. The text of the second begins with the pattern's reference:
\* digits may follow the pattern's row.
HasRangePattern(normalized, expected_col, style) ==
    LET EndsWithRef(t, col, row, dc, dr) ==
            /\ IsRefOf(t, col)
            /\ t.row = row
            /\ t.dr = dr
            /\ (dc => t.dc)
        BeginsWithRef(t, col, row, dc, dr) ==
            /\ IsRefOf(t, col)
            /\ t.dc = dc
            /\ t.dr = dr
            /\ (t.row = row \/ t.row \div 10 = row)
    IN  \E i \in 1..(Len(normalized) - 2) :
            /\ EndsWithRef(normalized[i], expected_col, 14, style[1], style[2])
            /\ normalized[i + 1] = Sym(":")
            /\ BeginsWithRef(normalized[i + 2], expected_col, 63, style[1], style[2])

\* range_patterns of the mean, median and standard deviation checks
range_patterns == {<<FALSE, FALSE>>, <<TRUE, TRUE>>, <<TRUE, FALSE>>, <<FALSE, TRUE>>}

\* correct_range_patterns of the range check
correct_range_patterns == {<<FALSE, FALSE>>, <<TRUE, TRUE>>}

\* The same three tests with comma for colon tried before the exact range.
CreditOfRange_comma_first(formula, normalized, expected_col, patterns) ==
    IF _detect_comma_instead_of_colon(formula, expected_col)
    THEN CREDIT_COMMA_NOT_COLON
    ELSE IF \E style \in patterns : HasRangePattern(normalized, expected_col, style)
    THEN CREDIT_FULL
    ELSE IF _detect_range_offset(formula, expected_col, 14, 63, 3)
    THEN CREDIT_RANGE_OFFSET
    ELSE CREDIT_NONE

\* The part the four checks share once the function has been accepted:
\* the exact range, then comma for colon, then the range offset.
CreditOfRange(formula, normalized, expected_col, patterns) ==
    IF \E style \in patterns : HasRangePattern(normalized, expected_col, style)
    THEN CREDIT_FULL
    ELSE IF _detect_comma_instead_of_colon(formula, expected_col)
    THEN CREDIT_COMMA_NOT_COLON
    ELSE IF _detect_range_offset(formula, expected_col, 14, 63, 3)
    THEN CREDIT_RANGE_OFFSET
    ELSE CREDIT_NONE

_check_mean_formula(formula, col) ==
    IF _extract_function_name(formula) # "AVERAGE"
    THEN CREDIT_NONE
    ELSE CreditOfRange(formula, _normalize_formula(formula), col_map(col),
                       range_patterns)

_check_median_formula(formula, col) ==
    IF _extract_function_name(formula) # "MEDIAN"
    THEN CREDIT_NONE
    ELSE CreditOfRange(formula, _normalize_formula(formula), col_map(col),
                       range_patterns)

\* Names whose text ends with STDEV, STDEV.P or STDEV.S.
StdevNames == {"STDEV", "STDEV.P", "STDEV.S", "_XLFN.STDEV.S"}

\* any(f in normalized for f in ["STDEV(", "STDEV.P(", "STDEV.S("])
HasCall(normalized, names) ==
    \E i \in 1..(Len(normalized) - 1) :
        /\ normalized[i].k = "name"
        /\ normalized[i].v \in names
        /\ normalized[i + 1] = Sym("(")

\* normalized = "=" + normalized[2:] when normalized starts with "=-"
_check_stdev_formula(formula, col) ==
    IF formula = <<>> \/ formula[1] # Sym("=")
    THEN CREDIT_NONE
    ELSE LET DropNegative(n) ==
                 IF Len(n) >= 2 /\ n[2] = Sym("-")
                 THEN <<n[1]>> \o SubSeq(n, 3, Len(n))
                 ELSE n
             normalized == DropNegative(_normalize_formula(formula))
             func == _extract_function_name(normalized)
             has_stdev == HasCall(normalized, StdevNames)
         IN  IF ~has_stdev /\ func \notin {"STDEV", "STDEV.P", "STDEV.S"}
             THEN CREDIT_NONE
             ELSE CreditOfRange(formula, normalized, col_map(col),
                                range_patterns)

\* expected_col in normalized: the letter of a reference, or a letter B, C
\* or D in the text of a function name.
_check_range_formula(formula, col) ==
    IF formula = <<>> \/ formula[1] # Sym("=")
    THEN CREDIT_NONE
    ELSE LET normalized == _normalize_formula(formula)
             expected_col == col_map(col)
             NameLetters(text) ==
                 CASE text \in {"MEDIAN"} \cup StdevNames -> {"D"}
                   [] OTHER -> {}
             HasLetter(n, letter) ==
                 \E i \in DOMAIN n :
                     \/ IsRefOf(n[i], letter)
                     \/ n[i].k = "name" /\ letter \in NameLetters(n[i].v)
         IN  IF ~HasCall(normalized, {"MAX"}) \/ ~HasCall(normalized, {"MIN"})
             THEN CREDIT_NONE
             ELSE IF ~HasLetter(normalized, expected_col)
             THEN CREDIT_NONE
             ELSE IF \A i \in DOMAIN normalized : normalized[i] # Sym("-")
             THEN CREDIT_NONE
             ELSE CreditOfRange(formula, normalized, expected_col,
                                correct_range_patterns)

\* ----------------------------------------------- candidate formulas (inputs)
\* The arguments a student may put in the parentheses: a range, two cells
\* with a comma, a range followed by one more cell, a range written with a
\* space after the colon.
Arguments(shape, c, r1, r2, st) ==
    LET a == Ref(c, r1, st[1][1], st[1][2])
        b == Ref(c, r2, st[2][1], st[2][2])
    IN  CASE shape = "range" -> <<a, Sym(":"), b>>
          [] shape = "comma" -> <<a, Sym(","), b>>
          [] shape = "range and cell" ->
                <<a, Sym(":"), b, Sym(","), Ref(c, 64, FALSE, FALSE)>>
          [] shape = "spaced range" -> <<a, Sym(":"), Sym(" "), b>>

Call(name, arguments) ==
    <<Sym("="), FnName(name), Sym("(")>> \o arguments \o <<Sym(")")>>

\* =NAME(arguments), and =-NAME(arguments) for the standard deviation
OneCallFormula(head, arguments) ==
    IF head = "-STDEV.S"
    THEN <<Sym("="), Sym("-")>> \o Tail(Call("STDEV.S", arguments))
    ELSE Call(head, arguments)

\* =MAX(arguments)-MIN(arguments) for head <<"-", "MIN">>
RangeFormula(head, arguments) ==
    Call("MAX", arguments) \o <<Sym(head[1])>> \o Tail(Call(head[2], arguments))

CheckFunctions == {"_check_mean_formula", "_check_median_formula",
                   "_check_stdev_formula", "_check_range_formula"}

\* A call of one of the four checks on a candidate formula. The rows of a
\* candidate range lie near the expected ones (or the end row is 630); the
\* "$" markers of its two references come in six styles; the formula is one
\* call (=-STDEV.S for the negated one) or =MAX(..) with "-" or "+" and
\* MIN or SUM; a cell that holds no formula has the empty text or a text
\* without "=".
StatisticsCall ==
    LET StartRows == {14 + d : d \in (0 - MaxOffset)..MaxOffset}
        EndRows == {63 + d : d \in (0 - MaxOffset)..MaxOffset} \cup {630}
        RefStyles == {<<s, s>> : s \in range_patterns}
                        \cup {<<<<TRUE, FALSE>>, <<FALSE, FALSE>>>>,
                              <<<<FALSE, FALSE>>, <<TRUE, TRUE>>>>}
        Shapes == {"range", "comma", "range and cell", "spaced range"}
        OneCallHeads == {"AVERAGE", "average", "MEDIAN", "SUM", "STDEV", "STDEV.S",
                         "_xlfn.STDEV.S", "-STDEV.S"}
        RangeHeads == {<<"-", "MIN">>, <<"+", "MIN">>, <<"-", "SUM">>}
        NoFormulas == {<<>>, <<FnName("AVERAGE")>>}
    IN  \E f \in CheckFunctions, col \in {"G", "H"} :
            /\ fn = f
            /\ \/ \E x \in NoFormulas : arg = [formula |-> x, col |-> col]
               \/ \E shape \in Shapes, c \in {"B", "C"}, r1 \in StartRows,
                     r2 \in EndRows, st \in RefStyles :
                     LET arguments == Arguments(shape, c, r1, r2, st)
                     IN  IF f = "_check_range_formula"
                         THEN \E head \in RangeHeads :
                                 arg = [formula |-> RangeFormula(head, arguments),
                                        col |-> col]
                         ELSE \E head \in OneCallHeads :
                                 arg = [formula |-> OneCallFormula(head, arguments),
                                        col |-> col]

\* The check function named f.
check_func(f, formula, col) ==
    CASE f = "_check_mean_formula" -> _check_mean_formula(formula, col)
      [] f = "_check_median_formula" -> _check_median_formula(formula, col)
      [] f = "_check_stdev_formula" -> _check_stdev_formula(formula, col)
      [] f = "_check_range_formula" -> _check_range_formula(formula, col)

PipelineUnchanged == UNCHANGED <<state_vars, server_vars, task_vars>>

Return(value) ==
    /\ ~returned
    /\ ret' = value
    /\ returned' = TRUE
    /\ UNCHANGED <<fn, arg>>
    /\ PipelineUnchanged

apply_check_mean_formula ==
    /\ fn = "_check_mean_formula"
    /\ Return(_check_mean_formula(arg.formula, arg.col))

apply_check_median_formula ==
    /\ fn = "_check_median_formula"
    /\ Return(_check_median_formula(arg.formula, arg.col))

apply_check_stdev_formula ==
    /\ fn = "_check_stdev_formula"
    /\ Return(_check_stdev_formula(arg.formula, arg.col))

apply_check_range_formula ==
    /\ fn = "_check_range_formula"
    /\ Return(_check_range_formula(arg.formula, arg.col))

\* ------------------------------------------------- computed-value comparison
\* graders/currency_conversion/row20_budget_conversion_v2.py,
\* row21_usd_conversion_back_v2.py and unit_conversions/temp_conversions_v2.py.
\* A cell value is <<>> (None) or <<n>>, n the number in hundredths. The
\* comparisons are computed on the exact numbers; the values drawn below are
\* those on which the doubles of the source give the same result: whole
\* numbers, and hundredths where the number is compared with the literal 0.01
\* alone.
MaxDelta == 4         \* an actual value lies within this many steps of the expected one

Scale == 100
NoValue == <<>>
Num(n) == <<n>>

tolerance_default == 1        \* in hundredths: tolerance=0.01

\* _values_match with a tolerance that excludes its edge.
_values_match_exclusive(actual, expected, tolerance) ==
    IF actual = NoValue \/ expected = NoValue
    THEN FALSE
    ELSE LET actual_f == actual[1]
             expected_f == expected[1]
         IN  IF expected_f = 0
             THEN Abs(actual_f) < 1
             ELSE Scale * Abs(actual_f - expected_f) < tolerance * Abs(expected_f)

\* _values_match of rows 20 and 21 (the two definitions are the same):
\* abs(actual) < 0.01 for an expected value of zero, otherwise
\* abs(actual - expected) / abs(expected) <= tolerance.
_values_match(actual, expected, tolerance) ==
    IF actual = NoValue \/ expected = NoValue
    THEN FALSE
    ELSE LET actual_f == actual[1]
             expected_f == expected[1]
         IN  IF expected_f = 0
             THEN Abs(actual_f) < 1
             ELSE Scale * Abs(actual_f - expected_f) <= tolerance * Abs(expected_f)

\* _check_c40_calculated_value: expected = (5/9) * (A40 - 32), accepted when
\* abs(expected - C40) < 0.01.
_check_c40_calculated_value(a40_val, c40_val) ==
    IF a40_val = NoValue \/ c40_val = NoValue
    THEN FALSE
    ELSE Abs(5 * (a40_val[1] - 32 * Scale) - 9 * c40_val[1]) < 9

\* ---- the calls made
\* The expected value is 100, -100 or 200 and the actual value up to
\* MaxDelta whole numbers away, or the expected value is 0 and the actual
\* value up to MaxDelta hundredths away.
ValuesMatchCall ==
    LET Deltas == (0 - MaxDelta)..MaxDelta
        ExpectedValues == {100 * Scale, 0 - 100 * Scale, 200 * Scale}
    IN  /\ fn = "_values_match"
        /\ \/ \E e \in ExpectedValues, d \in Deltas :
                  arg = [actual |-> Num(e + d * Scale), expected |-> Num(e)]
           \/ \E d \in Deltas :
                  arg = [actual |-> Num(d), expected |-> Num(0)]
           \/ \E e \in ExpectedValues :
                  arg \in {[actual |-> NoValue, expected |-> Num(e)],
                           [actual |-> Num(e), expected |-> NoValue]}

\* A40 holds 32, 41 or 212 degrees Fahrenheit: 0, 5 and 100 degrees Celsius.
C40Call ==
    LET Deltas == (0 - MaxDelta)..MaxDelta
        FahrenheitValues == {41 * Scale, 212 * Scale}
    IN  /\ fn = "_check_c40_calculated_value"
        /\ \/ \E a \in FahrenheitValues, d \in Deltas :
                  arg = [a40 |-> Num(a),
                         c40 |-> Num((5 * (a - 32 * Scale)) \div 9 + d * Scale)]
           \/ \E d \in Deltas :
                  arg = [a40 |-> Num(32 * Scale), c40 |-> Num(d)]
           \/ \E a \in FahrenheitValues :
                  arg \in {[a40 |-> NoValue, c40 |-> Num(a)],
                           [a40 |-> Num(a), c40 |-> NoValue]}

apply_values_match ==
    /\ fn = "_values_match"
    /\ Return(_values_match(arg.actual, arg.expected, tolerance_default))

apply_check_c40_calculated_value ==
    /\ fn = "_check_c40_calculated_value"
    /\ Return(_check_c40_calculated_value(arg.a40, arg.c40))

\* ------------------------------------------------- category totals
\* graders/currency_conversion/grade_currency_conversion_tab_v2.py with its
\* row graders, and graders/unit_conversions/temp_conversions_v2.py.
\* Points are counted in hundredths of a point. A graded formula cell is a
\* record: formula ("none" for a cell that holds no formula, "exact" for the
\* expected formula, "refs" for another formula that names both required
\* cells, "other"), and format, whether the number format is a currency one.
min(a, b) == IF a <= b THEN a ELSE b
max(a, b) == IF a >= b THEN a ELSE b

\* round(x, ndigits) of the number n / d, counted in units of the last digit
\* kept: the nearest whole number of units, a tie going to the even one.
round(n, d) ==
    LET q == n \div d
        r == n % d
    IN  IF 2 * r < d THEN q
        ELSE IF 2 * r > d THEN q + 1
        ELSE IF q % 2 = 0 THEN q ELSE q + 1

\* grade_row20_budget_conversion_v2(sheet), the tab grader passing no values
\* sheet: 2.0 for the exact formula and for another formula that names both
\* required cells, 0.25 for a currency format. Returns (total_score,
\* formula_score, format_score).
grade_row20_budget_conversion_v2(row) ==
    LET values_sheet == FALSE
        value_correct == FALSE
        formula_points(cell) ==
            IF cell.formula = "none" THEN 0
            ELSE IF cell.formula = "exact" THEN 200
            ELSE IF cell.formula = "refs"
                 THEN IF ~values_sheet THEN 200
                      ELSE IF value_correct THEN 200 ELSE 0
            ELSE 0
        format_points(cell) == IF cell.format THEN 25 ELSE 0
        formula_score == formula_points(row[1]) + formula_points(row[2])
                         + formula_points(row[3]) + formula_points(row[4])
        format_score == format_points(row[1]) + format_points(row[2])
                        + format_points(row[3]) + format_points(row[4])
    IN  [total_score |-> round(formula_score + format_score, 1),
         formula_score |-> round(formula_score, 1),
         format_score |-> round(format_score, 1)]

grade_row21_usd_conversion_back_v2(row) ==
    LET values_sheet == FALSE
        value_correct == FALSE
        formula_points(cell) ==
            IF cell.formula = "none" THEN 0
            ELSE IF cell.formula = "exact" THEN 200
            ELSE IF cell.formula = "refs"
                 THEN IF ~values_sheet THEN 200
                      ELSE IF value_correct THEN 200 ELSE 0
            ELSE 0
        format_points(cell) == IF cell.format THEN 25 ELSE 0
        formula_score == formula_points(row[1]) + formula_points(row[2])
                         + formula_points(row[3]) + formula_points(row[4])
        format_score == format_points(row[1]) + format_points(row[2])
                        + format_points(row[3]) + format_points(row[4])
    IN  [total_score |-> round(formula_score + format_score, 1),
         formula_score |-> round(formula_score, 1),
         format_score |-> round(format_score, 1)]

\* formatting_total with a bonus of 2 points.
formatting_total_double_bonus(row19_format_score, row20_format_score, row21_format_score) ==
    LET formatting_bonus == 200
    IN  round(row19_format_score + row20_format_score + row21_format_score
                + formatting_bonus, 1)

formatting_total(row19_format_score, row20_format_score, row21_format_score) ==
    LET formatting_bonus == 100
    IN  round(row19_format_score + row20_format_score + row21_format_score
                + formatting_bonus, 1)

\* grade_currency_conversion_tab_v2, rows 19 to 22. The result of row 19 is
\* (0.0, 0.0) when fetch_live_usd_rates() has failed, otherwise 1 point of
\* accuracy and 0.25 of formatting for each of its four cells that is right.
grade_currency_conversion_tab_v2(sheet) ==
    LET acc19 == IF sheet.err THEN 0 ELSE 100 * sheet.rates_right
        fmt19 == IF sheet.err THEN 0 ELSE 25 * sheet.rates_formatted
        r20 == grade_row20_budget_conversion_v2([c \in 1..4 |-> sheet.columns[c].row20])
        r21 == grade_row21_usd_conversion_back_v2([c \in 1..4 |-> sheet.columns[c].row21])
        row19_format_score == round(max(0, fmt19), 1)
        row20_format_score == round(max(0, r20.format_score), 1)
        row21_format_score == round(max(0, r21.format_score), 1)
    IN  [row19_accuracy_score |-> round(min(acc19, 400), 1),
         row19_format_score |-> row19_format_score,
         row20_formula_score |-> round(min(r20.formula_score, 800), 1),
         row20_format_score |-> row20_format_score,
         row21_formula_score |-> round(min(r21.formula_score, 800), 1),
         row21_format_score |-> row21_format_score,
         formatting_total |->
             formatting_total(row19_format_score, row20_format_score, row21_format_score)]

\* ---- temperature conversions
\* A cell of the Unit Conversions tab: t is "blank", "number" (n hundredths)
\* or "formula"; star tells whether the formula holds a "*" and frags whether
\* it holds every required fragment.
_get_cell_value(cell) ==
    IF cell.t = "number" THEN Num(cell.n) ELSE NoValue

\* _check_a41_calculated_value: expected = (9/5) * C41 + 32, accepted when
\* abs(expected - A41) < 0.01.
_check_a41_calculated_value(c41_val, a41_val) ==
    IF c41_val = NoValue \/ a41_val = NoValue
    THEN FALSE
    ELSE Abs(9 * c41_val[1] + 5 * 32 * Scale - 5 * a41_val[1]) < 5

\* grade_temp_conversions_v2: temp_and_celsius_score, in whole points.
grade_temp_conversions_v2(sheet) ==
    LET points(target, has_value) ==
            LET has_formula == target.t = "formula" /\ target.star
                has_refs == has_formula /\ target.frags
            IN  IF has_refs THEN 2
                ELSE IF has_formula /\ has_value THEN 1
                ELSE 0
        score ==
            points(sheet.C40, _check_c40_calculated_value(_get_cell_value(sheet.A40),
                                                          _get_cell_value(sheet.C40)))
            + points(sheet.A41, _check_a41_calculated_value(_get_cell_value(sheet.C41),
                                                            _get_cell_value(sheet.A41)))
    IN  min(score, 4)

\* ---- the calls made
\* Each of the columns C..F (1..4) holds one of six pairs of cells in its rows 20
\* and 21; row 19 has 0..4 rates right and 0..4 formatted, or the rates could
\* not be fetched.
CurrencyTabCall ==
    LET Cell(formula, format) == [formula |-> formula, format |-> format]
        ColumnStates ==
            {[row20 |-> Cell("none", FALSE),  row21 |-> Cell("none", FALSE)],
             [row20 |-> Cell("exact", TRUE),  row21 |-> Cell("exact", TRUE)],
             [row20 |-> Cell("refs", TRUE),   row21 |-> Cell("refs", FALSE)],
             [row20 |-> Cell("other", FALSE), row21 |-> Cell("other", TRUE)],
             [row20 |-> Cell("exact", FALSE), row21 |-> Cell("none", TRUE)],
             [row20 |-> Cell("none", TRUE),   row21 |-> Cell("refs", TRUE)]}
    IN  /\ fn = "grade_currency_conversion_tab_v2"
        /\ \E columns \in [1..4 -> ColumnStates], right \in 0..4, formatted \in 0..4 :
               \/ arg = [columns |-> columns, err |-> FALSE,
                         rates_right |-> right, rates_formatted |-> formatted]
               \/ /\ right = 0
                  /\ formatted = 0
                  /\ arg = [columns |-> columns, err |-> TRUE,
                            rates_right |-> 0, rates_formatted |-> 0]

TempCall ==
    LET Blank == [t |-> "blank", star |-> FALSE, frags |-> FALSE, n |-> 0]
        Number(n) == [t |-> "number", star |-> FALSE, frags |-> FALSE, n |-> n]
        Formulas == {[t |-> "formula", star |-> star, frags |-> frags, n |-> 0] :
                        star \in BOOLEAN, frags \in BOOLEAN}
    IN  /\ fn = "grade_temp_conversions_v2"
        /\ \E c40 \in Formulas \cup {Blank, Number(0)},
              a40 \in {Blank, Number(32 * Scale)},
              a41 \in Formulas \cup {Blank, Number(32 * Scale)},
              c41 \in {Blank, Number(0)} :
               arg = [A40 |-> a40, C40 |-> c40, A41 |-> a41, C41 |-> c41]

apply_grade_currency_conversion_tab_v2 ==
    /\ fn = "grade_currency_conversion_tab_v2"
    /\ Return(grade_currency_conversion_tab_v2(arg))

apply_grade_temp_conversions_v2 ==
    /\ fn = "grade_temp_conversions_v2"
    /\ Return(grade_temp_conversions_v2(arg))

\* ------------------------------------------------- aggregation of cells
\* graders/ma3_analysis/check_statistics.py (check_statistics) and
\* graders/income_analysis/check_predictions.py (check_predictions).
MaxEdits == 1         \* cells a student corrects before the sheet is graded again

\* The twelve checks of check_statistics: <<row, col, check_func>>.
checks ==
    <<<<18, "G", "_check_mean_formula">>,   <<18, "H", "_check_mean_formula">>,
      <<18, "I", "_check_mean_formula">>,   <<19, "G", "_check_median_formula">>,
      <<19, "H", "_check_median_formula">>, <<19, "I", "_check_median_formula">>,
      <<20, "G", "_check_stdev_formula">>,  <<20, "H", "_check_stdev_formula">>,
      <<20, "I", "_check_stdev_formula">>,  <<21, "G", "_check_range_formula">>,
      <<21, "H", "_check_range_formula">>,  <<21, "I", "_check_range_formula">>>>

RECURSIVE SumTo(_, _)
SumTo(f, n) == IF n = 0 THEN 0 ELSE f[n] + SumTo(f, n - 1)

\* The multiplier returned for the cell of check i: a cell holds nothing
\* (t = "blank"), a number, or a formula text f beginning with "=".
cell_credit(sheet, i) ==
    IF sheet[i].t # "formula"
    THEN CREDIT_NONE
    ELSE check_func(checks[i][3], sheet[i].f, checks[i][2])

\* The points of a cell with the range-offset credit paid 1.5 times.
cell_points_offset_overpaid(credit) ==
    LET points_per_cell == 200
    IN  IF credit = CREDIT_FULL THEN points_per_cell
        ELSE IF credit = CREDIT_RANGE_OFFSET THEN (points_per_cell * 150) \div 100
        ELSE IF credit = CREDIT_COMMA_NOT_COLON
             THEN (points_per_cell * CREDIT_COMMA_NOT_COLON) \div 100
        ELSE 0

\* The points check_statistics adds for one cell, in hundredths.
cell_points(credit) ==
    LET points_per_cell == 200
    IN  IF credit = CREDIT_FULL THEN points_per_cell
        ELSE IF credit = CREDIT_RANGE_OFFSET
             THEN (points_per_cell * CREDIT_RANGE_OFFSET) \div 100
        ELSE IF credit = CREDIT_COMMA_NOT_COLON
             THEN (points_per_cell * CREDIT_COMMA_NOT_COLON) \div 100
        ELSE 0

\* check_statistics(sheet): the score, in hundredths of a point, and the
\* codes of the feedback list. A cell that earns full credit adds no code.
check_statistics(sheet) ==
    LET total_cells == 12
        total_score == SumTo([i \in 1..total_cells |-> cell_points(cell_credit(sheet, i))],
                             total_cells)
        stat(i) == CASE checks[i][3] = "_check_mean_formula" -> "STAT_MEAN"
                     [] checks[i][3] = "_check_median_formula" -> "STAT_MEDIAN"
                     [] checks[i][3] = "_check_stdev_formula" -> "STAT_STDEV"
                     [] OTHER -> "STAT_RANGE"
        code(i) == IF sheet[i].t = "blank" THEN stat(i) \o "_MISSING"
                   ELSE IF sheet[i].t # "formula" THEN stat(i) \o "_WRONG"
                   ELSE IF cell_credit(sheet, i) = CREDIT_FULL THEN ""
                   ELSE IF cell_credit(sheet, i) = CREDIT_NONE THEN stat(i) \o "_WRONG"
                   ELSE stat(i) \o "_PARTIAL"
        credited(c) == Cardinality({i \in 1..total_cells :
                                      sheet[i].t = "formula" /\ cell_credit(sheet, i) \in c})
        full_credit_count == credited({CREDIT_FULL})
        partial_credit_count == credited({CREDIT_RANGE_OFFSET, CREDIT_COMMA_NOT_COLON})
        feedback == SelectSeq([i \in 1..total_cells |-> code(i)], LAMBDA c : c # "")
    IN  [score |-> round(total_score, 1),
         feedback |->
            IF full_credit_count = total_cells THEN <<"STATS_ALL_CORRECT">>
            ELSE IF full_credit_count = 0 /\ partial_credit_count = 0
            THEN <<"STATS_NONE_CORRECT">> \o feedback
            ELSE IF partial_credit_count > 0
            THEN <<"STATS_PARTIAL_CREDIT">> \o feedback
            ELSE <<"STATS_PARTIAL">> \o feedback]

\* check_predictions(ws): ws maps the rows 19..35 to the cell of column E,
\* described by what the grader reads of it. The score is in hundredths of a
\* point: round(correct_count * (6 / total_rows), 1) is a number of tenths.
check_predictions(ws) ==
    LET total_rows == 17
        correct(row) == /\ ws[row].is_formula
                        /\ ws[row].has_slope_intercept
                        /\ ws[row].has_years
        correct_count == Cardinality({row \in 19..35 : correct(row)})
        not_formula == \E row \in 19..35 : ~ws[row].is_formula
        missing_slope_intercept ==
            \E row \in 19..35 : ws[row].is_formula /\ ~ws[row].has_slope_intercept
        missing_years_ref ==
            \E row \in 19..35 : /\ ws[row].is_formula
                                 /\ ws[row].has_slope_intercept
                                 /\ ~ws[row].has_years
        issues == (IF not_formula THEN <<"IA_PREDICTIONS_NOT_FORMULAS">> ELSE <<>>)
                    \o (IF missing_slope_intercept
                        THEN <<"IA_PREDICTIONS_MISSING_REFS">> ELSE <<>>)
                    \o (IF missing_years_ref
                        THEN <<"IA_PREDICTIONS_MISSING_YEARS">> ELSE <<>>)
    IN  IF correct_count = total_rows
        THEN [score |-> 600, feedback |-> <<"IA_PREDICTIONS_ALL_CORRECT">>]
        ELSE IF correct_count = 0
        THEN [score |-> 0,
              feedback |-> IF issues = <<>> THEN <<"IA_PREDICTIONS_NONE_CORRECT">>
                           ELSE issues]
        ELSE [score |-> 10 * round(correct_count * 60, total_rows),
              feedback |-> <<"IA_PREDICTIONS_PARTIAL">>]

\* ---- the calls made
\* The formula check i expects, and what else a student may leave there.
StatCell(i, kind) ==
    LET c == col_map(checks[i][2])
        plain == <<<<FALSE, FALSE>>, <<FALSE, FALSE>>>>
        arguments == CASE kind = "offset" -> Arguments("range", c, 15, 64, plain)
                       [] kind = "comma" -> Arguments("comma", c, 14, 63, plain)
                       [] OTHER -> Arguments("range", c, 14, 63, plain)
        name == CASE checks[i][3] = "_check_mean_formula" -> "AVERAGE"
                  [] checks[i][3] = "_check_median_formula" -> "MEDIAN"
                  [] OTHER -> "STDEV.S"
        text == IF checks[i][3] = "_check_range_formula"
                THEN RangeFormula(IF kind = "wrong" THEN <<"-", "SUM">> ELSE <<"-", "MIN">>,
                                  arguments)
                ELSE OneCallFormula(IF kind = "wrong" THEN "SUM" ELSE name, arguments)
    IN  IF kind \in {"blank", "number"}
        THEN [t |-> kind, f |-> <<>>]
        ELSE [t |-> "formula", f |-> text]

\* Each of the rows 18..21 is filled in one way across its three columns.
StatisticsSheetCall ==
    /\ fn = "check_statistics"
    /\ \E kinds \in [18..21 -> {"expected", "offset", "comma", "wrong", "blank", "number"}] :
           arg = [sheet |-> [i \in 1..12 |-> StatCell(i, kinds[checks[i][1]])],
                  edits |-> 0]

PredictionCell(kind) ==
    [is_formula |-> kind # "not_formula",
     has_slope_intercept |-> kind \in {"correct", "missing_years"},
     has_years |-> kind \in {"correct", "missing_refs"}]

\* The first k cells of E19:E35 hold the expected formula, the others all
\* fail in one way.
PredictionsCall ==
    /\ fn = "check_predictions"
    /\ \E k \in 0..17, kind \in {"not_formula", "missing_refs", "missing_years"} :
           arg = [sheet |-> [row \in 19..35 |->
                                IF row < 19 + k THEN PredictionCell("correct")
                                ELSE PredictionCell(kind)],
                  edits |-> 0]

apply_check_statistics ==
    /\ fn = "check_statistics"
    /\ Return(check_statistics(arg.sheet))

apply_check_predictions ==
    /\ fn = "check_predictions"
    /\ Return(check_predictions(arg.sheet))

\* The student corrects one cell that has not earned full credit and the
\* sheet is graded again.
regrade_check_statistics ==
    /\ fn = "check_statistics"
    /\ returned
    /\ arg.edits < MaxEdits
    /\ \E i \in 1..12 :
           /\ cell_credit(arg.sheet, i) # CREDIT_FULL
           /\ LET sheet == [arg.sheet EXCEPT ![i] = StatCell(i, "expected")]
              IN  /\ arg' = [sheet |-> sheet, edits |-> arg.edits + 1]
                  /\ ret' = check_statistics(sheet)
    /\ UNCHANGED <<fn, returned>>
    /\ PipelineUnchanged

regrade_check_predictions ==
    /\ fn = "check_predictions"
    /\ returned
    /\ arg.edits < MaxEdits
    /\ \E row \in 19..35 :
           /\ arg.sheet[row] # PredictionCell("correct")
           /\ LET sheet == [arg.sheet EXCEPT ![row] = PredictionCell("correct")]
              IN  /\ arg' = [sheet |-> sheet, edits |-> arg.edits + 1]
                  /\ ret' = check_predictions(sheet)
    /\ UNCHANGED <<fn, returned>>
    /\ PipelineUnchanged

\* ------------------------------------------------- unit-label normalization
\* graders/unit_conversions/row29_checker_v2.py (normalize_time_unit) and
\* row27_checker_v2.py (normalize_time). A text is the sequence of its
\* characters.
MaxLen == 4           \* characters of a unit label

\* str.replace(old, new): the occurrences of old, found from the left and
\* not overlapping, are replaced by new.
RECURSIVE replace(_, _, _)
replace(u, old, new) ==
    IF Len(u) < Len(old) THEN u
    ELSE IF SubSeq(u, 1, Len(old)) = old
         THEN new \o replace(SubSeq(u, Len(old) + 1, Len(u)), old, new)
         ELSE <<Head(u)>> \o replace(Tail(u), old, new)

\* normalize_time_unit of row 29: "" for a value that is no text, otherwise
\* hr -> h, day -> d, year -> yr, y/ -> yr/ in this order.
normalize_time_unit(is_str, u) ==
    IF ~is_str THEN <<>>
    ELSE LET u1 == replace(u, <<"h", "r">>, <<"h">>)
             u2 == replace(u1, <<"d", "a", "y">>, <<"d">>)
             u3 == replace(u2, <<"y", "e", "a", "r">>, <<"y", "r">>)
         IN  replace(u3, <<"y", "/">>, <<"y", "r", "/">>)

\* normalize_time of row 27: hr -> h, then day -> d.
normalize_time(u) ==
    replace(replace(u, <<"h", "r">>, <<"h">>), <<"d", "a", "y">>, <<"d">>)

\* ---- the calls made
\* A label of at most MaxLen characters of "hrdaye/", or for row 29 a value
\* that is no text.
NormalizeCall ==
    LET Labels == UNION {[1..n -> {"h", "r", "d", "a", "y", "e", "/"}] : n \in 0..MaxLen}
    IN  \/ /\ fn = "normalize_time_unit"
           /\ \/ \E u \in Labels : arg = [is_str |-> TRUE, u |-> u]
              \/ arg = [is_str |-> FALSE, u |-> <<>>]
        \/ /\ fn = "normalize_time"
           /\ \E u \in Labels : arg = [is_str |-> TRUE, u |-> u]

apply_normalize_time_unit ==
    /\ fn = "normalize_time_unit"
    /\ Return(normalize_time_unit(arg.is_str, arg.u))

apply_normalize_time ==
    /\ fn = "normalize_time"
    /\ Return(normalize_time(arg.u))

\* ------------------------------------------------- cell resolution
\* graders/currency_conversion/row16_country_selection_v2.py
\* (_resolve_cell_value). A cell value is a record: t is "none" (None),
\* "number", "text", "ref" (the text of a formula that is one reference to
\* the cell named by to, written in the given style) or "formula" (the text
\* of any other formula); s is the text and pad tells whether white space
\* surrounds it.

\* _resolve_cell_value following a reference found in the referenced cell.
_resolve_cell_value_transitive(sheet, cell_ref) ==
    LET strip(v) == IF v.t = "number" THEN [v EXCEPT !.t = "text"]
                    ELSE [v EXCEPT !.pad = FALSE]
        empty == [t |-> "text", s |-> "", to |-> "", style |-> "", pad |-> FALSE]
        raw == sheet[cell_ref]
    IN  IF raw.t = "none" THEN empty
        ELSE IF raw.t = "number" THEN strip(raw)
        ELSE IF raw.t = "ref"
             THEN LET ref_value == sheet[raw.to]
                  IN  IF ref_value.t = "ref"
                      THEN IF sheet[ref_value.to].t # "none"
                           THEN strip(sheet[ref_value.to]) ELSE empty
                      ELSE IF ref_value.t # "none" THEN strip(ref_value) ELSE empty
        ELSE strip(raw)

\* _resolve_cell_value(sheet, cell_ref): "" for None, str(raw).strip() for a
\* value that is no text; a text matching ^=\$?([A-Za-z]+)\$?(\d+)$ after
\* strip() gives str(ref_value).strip() of the cell it names, "" when that
\* cell holds None; any other text is returned stripped.
_resolve_cell_value(sheet, cell_ref) ==
    LET strip(v) == IF v.t = "number" THEN [v EXCEPT !.t = "text"]
                    ELSE [v EXCEPT !.pad = FALSE]
        empty == [t |-> "text", s |-> "", to |-> "", style |-> "", pad |-> FALSE]
        raw == sheet[cell_ref]
    IN  IF raw.t = "none" THEN empty
        ELSE IF raw.t = "number" THEN strip(raw)
        ELSE IF raw.t = "ref"
             THEN LET ref_value == sheet[raw.to]
                  IN  IF ref_value.t # "none" THEN strip(ref_value) ELSE empty
        ELSE strip(raw)

\* ---- the calls made
\* C16 is resolved on a sheet whose cells C16, F27 and G5 hold nothing, a
\* number, a country name, a formula, or a reference to one of the three
\* written as =F27, =$F$27 or =f27.
ResolveCall ==
    LET Cells == {"C16", "F27", "G5"}
        Value(t, s, to, style, pad) ==
            [t |-> t, s |-> s, to |-> to, style |-> style, pad |-> pad]
        Values ==
            {Value("none", "", "", "", FALSE), Value("number", "27", "", "", FALSE),
             Value("text", "France", "", "", FALSE), Value("text", "France", "", "", TRUE),
             Value("formula", "=F27&G5", "", "", FALSE)}
            \cup {Value("ref", "", to, style, pad) :
                     to \in Cells, style \in {"plain", "dollar", "lower"}, pad \in BOOLEAN}
    IN  /\ fn = "_resolve_cell_value"
        /\ \E sheet \in [Cells -> Values] : arg = [sheet |-> sheet, cell_ref |-> "C16"]

apply_resolve_cell_value ==
    /\ fn = "_resolve_cell_value"
    /\ Return(_resolve_cell_value(arg.sheet, arg.cell_ref))

\* ------------------------------------------- graders/income_analysis
\* A cell is read through its value and its number format: t is "blank"
\* (None), "number" or "str", f the tokens of a text, zero_decimal what
\* _is_zero_decimal_number_format answers for the cell's number_format.
\*
\* check_slope_intercept(ws): <<score, feedback>> for B30 and B31.
check_slope_intercept(ws) ==
    LET norm(cell) ==
            IF cell.t = "str"
            THEN LET kept == SelectSeq(cell.f, NotSpace)
                 IN  [i \in DOMAIN kept |->
                        [kept[i] EXCEPT !.v = Upper(@), !.dc = FALSE, !.dr = FALSE]]
            ELSE <<>>
        ranges(c1, c2) ==
            <<Ref(c1, 19, FALSE, FALSE), Sym(":"), Ref(c1, 26, FALSE, FALSE), Sym(","),
              Ref(c2, 19, FALSE, FALSE), Sym(":"), Ref(c2, 26, FALSE, FALSE)>>
        contains(formula, name) ==
            \E i \in 1..(Len(formula) - 1) :
                /\ formula[i] = FnName(name)
                /\ formula[i + 1] = Sym("(")
        one(cell, name, code) ==
            LET formula == norm(cell)
            IN  IF formula = Call(name, ranges("B", "A"))
                THEN [points |-> 3, code |-> code \o "_CORRECT"]
                ELSE IF formula = Call(name, ranges("A", "B"))
                THEN [points |-> 2, code |-> code \o "_REVERSED"]
                ELSE IF contains(formula, name)
                THEN [points |-> 1, code |-> code \o "_WRONG_RANGE"]
                ELSE [points |-> 0, code |-> code \o "_MISSING"]
        slope == one(ws.B30, "SLOPE", "IA_SLOPE")
        intercept == one(ws.B31, "INTERCEPT", "IA_INTERCEPT")
        feedback == <<slope.code, intercept.code>>
    IN  <<slope.points + intercept.points,
          IF slope.points = 2 /\ intercept.points = 2
          THEN <<"IA_XY_DATA_SWAPPED">> \o feedback
          ELSE feedback>>

\* grade_income_analysis(ws): the results dictionary, or the exception the
\* call ends with. Scores are in hundredths of a point. A tuple unpacked
\* into a different number of names raises ValueError.
grade_income_analysis(ws) ==
    LET check_name_present ==
            IF ws.B1 THEN <<100, <<"IA_NAME_PRESENT">>>>
            ELSE <<0, <<"IA_NAME_MISSING">>>>
        slope == check_slope_intercept(ws)
        check_slope_intercept_formatting ==
            <<(IF ws.B30.zero_decimal THEN 50 ELSE 0)
                  + (IF ws.B31.zero_decimal THEN 50 ELSE 0),
              <<IF ws.B30.zero_decimal THEN "IA_SLOPE_FORMAT_CORRECT"
                ELSE "IA_SLOPE_FORMAT_INCORRECT",
                IF ws.B31.zero_decimal THEN "IA_INTERCEPT_FORMAT_CORRECT"
                ELSE "IA_INTERCEPT_FORMAT_INCORRECT">>>>
        pred == check_predictions(ws.E)
        check_currency_formatting ==
            LET correct_count == Cardinality({row \in 19..35 : ws.E[row].currency})
            IN  IF correct_count = 17 THEN <<100, <<"IA_PRED_FORMAT_ALL_CORRECT">>>>
                ELSE IF correct_count = 0 THEN <<0, <<"IA_PRED_FORMAT_NONE_CORRECT">>>>
                ELSE <<round(correct_count * 100, 17), <<"IA_PRED_FORMAT_PARTIAL">>>>
        check_scatterplot ==
            LET code(has, name) == IF has THEN "IA_SCATTER_" \o name \o "_PRESENT"
                                   ELSE "IA_SCATTER_" \o name \o "_MISSING"
                extended == ws.chart.trendline /\ ws.chart.extended
            IN  IF ~ws.chart.scatter
                THEN <<0, 0, <<"IA_SCATTER_NOT_FOUND">>>>
                ELSE <<(IF ws.chart.bls_data THEN 300 ELSE 100)
                           + 100 * Cardinality({l \in {"title", "x", "y"} : ws.chart[l]}),
                       (IF ws.chart.trendline THEN 100 ELSE 0)
                           + (IF extended THEN 100 ELSE 0),
                       <<IF ws.chart.bls_data THEN "IA_SCATTER_FOUND"
                         ELSE "IA_SCATTER_WRONG_DATA",
                         code(ws.chart.title, "TITLE"),
                         code(ws.chart.x, "XLABEL"),
                         code(ws.chart.y, "YLABEL"),
                         code(ws.chart.trendline, "TRENDLINE"),
                         IF extended THEN "IA_SCATTER_EXTENDED_CORRECT"
                         ELSE "IA_SCATTER_EXTENDED_MISSING">>>>
        names_unpacked == 2
    IN  IF Len(check_scatterplot) # names_unpacked
        THEN [raised |-> "ValueError", results |-> <<>>]
        ELSE [raised |-> None,
              results |->
                [name_score |-> check_name_present[1],
                 name_feedback |-> check_name_present[2],
                 slope_score |-> 100 * slope[1] + check_slope_intercept_formatting[1],
                 slope_feedback |-> slope[2] \o check_slope_intercept_formatting[2],
                 predictions_score |-> pred.score + check_currency_formatting[1],
                 predictions_feedback |-> pred.feedback \o check_currency_formatting[2],
                 scatterplot_score |-> check_scatterplot[1],
                 scatterplot_feedback |-> check_scatterplot[2]]]

\* ---- the calls made
\* What a student may leave in B30 (name SLOPE) or B31 (name INTERCEPT).
SlopeCell(name, kind) ==
    LET plain == <<<<FALSE, FALSE>>, <<FALSE, FALSE>>>>
        fixed == <<<<TRUE, TRUE>>, <<TRUE, TRUE>>>>
        y(rows, st) == Arguments("range", "B", 19, rows, st)
        x(rows, st) == Arguments("range", "A", 19, rows, st)
        f == CASE kind = "correct" -> Call(name, y(26, plain) \o <<Sym(",")>> \o x(26, plain))
               [] kind = "styled" ->
                    Call(IF name = "SLOPE" THEN "slope" ELSE name,
                         y(26, fixed) \o <<Sym(","), Sym(" ")>> \o x(26, plain))
               [] kind = "reversed" -> Call(name, x(26, plain) \o <<Sym(",")>> \o y(26, plain))
               [] kind = "wrong range" -> Call(name, y(25, plain) \o <<Sym(",")>> \o x(25, plain))
               [] kind = "wrong function" -> Call("AVERAGE", y(26, plain))
               [] kind = "text" -> Tail(Call(name, y(26, plain) \o <<Sym(",")>> \o x(26, plain)))
               [] OTHER -> <<>>
    IN  [t |-> IF kind \in {"blank", "number"} THEN kind ELSE "str",
         f |-> f,
         zero_decimal |-> kind # "number"]

\* A call of the tab grader, or of the slope and intercept check alone, on
\* an Income Analysis sheet.
IncomeSheetCall ==
    LET SlopeKinds == {"correct", "styled", "reversed", "wrong range",
                       "wrong function", "text", "empty text", "blank", "number"}
    IN
    /\ fn \in {"grade_income_analysis", "check_slope_intercept"}
    /\ \E name \in BOOLEAN, b30 \in SlopeKinds, b31 \in SlopeKinds,
          k \in {0, 8, 17}, chart \in {"none", "bare", "complete"} :
           arg = [B1 |-> name,
                  B30 |-> SlopeCell("SLOPE", b30),
                  B31 |-> SlopeCell("INTERCEPT", b31),
                  E |-> [row \in 19..35 |->
                            [is_formula |-> row < 19 + k,
                             has_slope_intercept |-> row < 19 + k,
                             has_years |-> row < 19 + k,
                             currency |-> row < 19 + k]],
                  chart |-> [scatter |-> chart # "none",
                             bls_data |-> chart = "complete",
                             title |-> chart = "complete",
                             x |-> chart = "complete",
                             y |-> chart = "complete",
                             trendline |-> chart = "complete",
                             extended |-> chart = "complete"]]

apply_grade_income_analysis ==
    /\ fn = "grade_income_analysis"
    /\ Return(grade_income_analysis(arg))

apply_check_slope_intercept ==
    /\ fn = "check_slope_intercept"
    /\ Return(check_slope_intercept(arg))

\* ------------------------------------------ utilities/feedback_renderer
MaxItems == 3         \* feedback items in one list

\* feedback/<tab_name>.json as load_feedback returns it: a code has a
\* template (its fields and the text str.format makes of it), <<template>>
\* here, or none, <<>> here.
feedback_map(code) ==
    CASE code = "IA_NAME_MISSING" -> <<[fields |-> {}, text |-> "Name is missing in B1."]>>
      [] code = "IA_SLOPE_MISSING" ->
            <<[fields |-> {"cell"}, text |-> "No SLOPE formula found in B30."]>>
      [] OTHER -> <<>>

RECURSIVE join(_, _)
join(sep, lines) ==
    IF lines = <<>> THEN ""
    ELSE IF Len(lines) = 1 THEN lines[1]
    ELSE lines[1] \o sep \o join(sep, Tail(lines))

\* A renderer that gives up at the first code without a template.
render_feedback_stops_at_unknown(feedback_items) ==
    LET known(i) == feedback_map(feedback_items[i].code) # <<>>
        stop == IF \A i \in DOMAIN feedback_items : known(i)
                THEN Len(feedback_items) + 1
                ELSE CHOOSE i \in DOMAIN feedback_items :
                        ~known(i) /\ \A j \in 1..(i - 1) : known(j)
        lines == [i \in 1..(stop - 1) |-> feedback_map(feedback_items[i].code)[1].text]
    IN  [lines |-> lines, text |-> join("\n", lines)]

\* render_feedback(feedback_items, tab_name) for a list of (code, params):
\* the lines appended and the text returned.
render_feedback(feedback_items) ==
    LET line(item) ==
            LET template == feedback_map(item.code)
            IN  IF template = <<>>
                THEN "[" \o item.code \o "] " \o item.params.str
                ELSE IF template[1].fields \subseteq item.params.keys
                THEN template[1].text
                ELSE "[FORMAT ERROR] " \o item.code \o ": " \o item.params.str
        lines == [i \in DOMAIN feedback_items |-> line(feedback_items[i])]
    IN  IF feedback_items = <<>>
        THEN [lines |-> <<>>, text |-> ""]
        ELSE [lines |-> lines, text |-> join("\n", lines)]

\* A call on a list of (code, params) items; params is None, {} or
\* {"cell": "B30"}, given by its keys and by the text str(params) writes.
RenderCall ==
    LET Params(kind) ==
            CASE kind = "None" -> [keys |-> {}, str |-> "None"]
              [] kind = "empty" -> [keys |-> {}, str |-> "{}"]
              [] kind = "cell" -> [keys |-> {"cell"}, str |-> "{'cell': 'B30'}"]
    IN
    /\ fn = "render_feedback"
    /\ \E n \in 0..MaxItems :
           \E codes \in [1..n -> {"IA_NAME_MISSING", "IA_SLOPE_MISSING", "STAT_MEAN_OK"}],
              params \in [1..n -> {"None", "empty", "cell"}] :
               arg = [i \in 1..n |-> [code |-> codes[i], params |-> Params(params[i])]]

apply_render_feedback ==
    /\ fn = "render_feedback"
    /\ Return(render_feedback(arg))

\* ----------------------------- orchestrator/phase1_grade_all_ma3 (sheets)
\* s.lower() on the sheet names an MA3 workbook may carry.
lower(s) ==
    CASE s \in {"Analysis", "ANALYSIS"} -> "analysis"
      [] s = " Analysis" -> " analysis"
      [] s = "Visualization" -> "visualization"
      [] s = "visualization " -> "visualization "
      [] OTHER -> "sheet1"

\* _validate_ma3_sheets(workbook): sheet_map has the names found only.
_validate_ma3_sheets(sheetnames) ==
    LET required_sheets == {"Analysis", "Visualization"}
        found == {req \in required_sheets :
                    \E s \in sheetnames : lower(s) = lower(req)}
    IN  [is_valid |-> found = required_sheets,
         sheet_map |-> [req \in found |->
                          CHOOSE s \in sheetnames : lower(s) = lower(req)],
         missing_sheets |-> required_sheets \ found]

\* A validation of the sheet names of a workbook of either assignment.
SheetsCall ==
    \/ /\ fn = "validate_required_sheets"
       /\ arg \in SUBSET SheetNames
    \/ /\ fn = "_validate_ma3_sheets"
       /\ arg \in SUBSET {"Analysis", "ANALYSIS", " Analysis", "Visualization",
                          "visualization ", "Sheet1"}

apply_validate_required_sheets ==
    /\ fn = "validate_required_sheets"
    /\ LET sheet_map == validate_required_sheets(arg)
       IN  Return([is_valid |-> missing_sheets(sheet_map) = {},
                   sheet_map |-> sheet_map,
                   missing_sheets |-> missing_sheets(sheet_map)])

apply_validate_ma3_sheets ==
    /\ fn = "_validate_ma3_sheets"
    /\ Return(_validate_ma3_sheets(arg))

\* --------------------------------- graders/ma3_visualization/check_histogram
\* check_histogram(sheet): the score in hundredths of a point and the codes
\* of the feedback list. The sheet is given by what the grader reads of its
\* charts: whether there is one (chart), whether one is a bar chart (bar),
\* whether that one has a series, what _check_data_range finds of its values
\* and categories ("ok", "wrong", "missing"), and which titles are there.
check_histogram(sheet) ==
    LET data(found, name) ==
            CASE found = "ok" -> "HIST_" \o name \o "_OK"
              [] found = "wrong" -> "HIST_" \o name \o "_WRONG"
              [] OTHER -> "HIST_" \o name \o "_MISSING"
        title(has, name) == IF has THEN "HIST_" \o name \o "_OK"
                            ELSE "HIST_" \o name \o "_MISSING"
        score == 100
                    + (IF sheet.series /\ sheet.values = "ok" THEN 200 ELSE 0)
                    + (IF sheet.series /\ sheet.categories = "ok" THEN 100 ELSE 0)
                    + (IF sheet.title THEN 100 ELSE 0)
                    + (IF sheet.x_title THEN 50 ELSE 0)
                    + (IF sheet.y_title THEN 50 ELSE 0)
        feedback == <<"HIST_FOUND",
                      IF sheet.series THEN data(sheet.values, "DATA")
                      ELSE "HIST_DATA_MISSING",
                      IF sheet.series THEN data(sheet.categories, "LABELS")
                      ELSE "HIST_LABELS_MISSING",
                      title(sheet.title, "TITLE"),
                      title(sheet.x_title, "XAXIS"),
                      title(sheet.y_title, "YAXIS")>>
    IN  IF ~sheet.chart THEN [score |-> 0, feedback |-> <<"HIST_MISSING">>]
        ELSE IF ~sheet.bar THEN [score |-> 0, feedback |-> <<"HIST_WRONG_TYPE">>]
        ELSE IF score = 600 THEN [score |-> score, feedback |-> <<"HIST_ALL_CORRECT">>]
        ELSE [score |-> score, feedback |-> <<"HIST_PARTIAL">> \o feedback]

HistogramCall ==
    /\ fn = "check_histogram"
    /\ \E chart \in {"none", "line", "bar"}, series \in BOOLEAN,
          values \in {"ok", "wrong", "missing"},
          categories \in {"ok", "wrong", "missing"},
          t \in BOOLEAN, x \in BOOLEAN, y \in BOOLEAN :
           arg = [chart |-> chart # "none", bar |-> chart = "bar",
                  series |-> series, values |-> values,
                  categories |-> categories,
                  title |-> t, x_title |-> x, y_title |-> y]

apply_check_histogram ==
    /\ fn = "check_histogram"
    /\ Return(check_histogram(arg))

\* ------------------------------------------- unit-conversion rows 26 to 29
\* graders/unit_conversions/row26_checker_v2.py .. row29_checker_v2.py. A row
\* is given by the values the graders compare, i.e. the cell texts after
\* norm_formula / norm_unit (and the time-unit normalization of rows 27 and
\* 29): F, I, L the ratio formulas, G, J, M their unit labels, O the set of
\* the texts among the cell names and "*" that the final formula contains,
\* P the final unit. Scores are points.

\* The first ratio of ratio_options whose forms contain the formula, "" when
\* there is none (the forms of different ratios are disjoint).
ratio_of(ratio_options, formula_val) ==
    IF \E r \in DOMAIN ratio_options : formula_val \in ratio_options[r]
    THEN CHOOSE r \in DOMAIN ratio_options : formula_val \in ratio_options[r]
    ELSE ""

\* The returned dict without the unit and final feedback lists.
RowResult(formulas_score, units, valid_units, final_formula, final_unit, formulas_feedback) ==
    [formulas_score |-> formulas_score,
     unit_text_score |-> Cardinality({i \in DOMAIN units : units[i] \in valid_units}),
     final_formula_score |-> IF final_formula THEN 2 ELSE 0,
     final_unit_score |-> IF final_unit THEN 1 ELSE 0,
     formulas_feedback |-> formulas_feedback]

\* grade_row_26_v2: found_mcg and found_ml keep a ratio from counting twice.
grade_row_26_v2(sheet) ==
    LET mcg_mg_forms == {"=L14/I14", "=L14", "=L14/1"}
        ml_tsp_forms == {"=L17/I17", "=L17", "=L17/1"}
        F_mcg == sheet.F \in mcg_mg_forms
        F_ml == ~F_mcg /\ sheet.F \in ml_tsp_forms
        I_mcg == sheet.I \in mcg_mg_forms /\ ~F_mcg
        I_ml == ~I_mcg /\ sheet.I \in ml_tsp_forms /\ ~F_ml
        formulas_score == (IF F_mcg \/ F_ml THEN 2 ELSE 0)
                            + (IF I_mcg \/ I_ml THEN 2 ELSE 0)
        formulas_feedback ==
            << IF F_mcg THEN <<"UC26_FORMULA_F_VALID", "F26", "mcg/mg">>
               ELSE IF F_ml THEN <<"UC26_FORMULA_F_VALID", "F26", "ml/tsp">>
               ELSE <<"UC26_FORMULA_F_INVALID", "F26", "">>,
               IF I_mcg THEN <<"UC26_FORMULA_I_VALID", "I26", "mcg/mg">>
               ELSE IF I_ml THEN <<"UC26_FORMULA_I_VALID", "I26", "ml/tsp">>
               ELSE <<"UC26_FORMULA_I_INVALID", "I26", "">> >>
    IN  RowResult(formulas_score, <<sheet.G, sheet.J>>, {"mcg/mg", "ml/tsp"},
                  {"C26", "F26", "I26", "*"} \subseteq sheet.O,
                  sheet.P = "mcg/tsp", formulas_feedback)

\* The loop over pairs of rows 27 and 28: every formula that is a form of
\* some ratio adds 2 points.
PairsLoop(row, ratio_options, cells, formulas) ==
    LET matched(i) == ratio_of(ratio_options, formulas[i]) # ""
        count == Cardinality({i \in DOMAIN formulas : matched(i)})
    IN  [formulas_score |-> 2 * count,
         formulas_feedback |->
            [i \in DOMAIN formulas |->
                IF matched(i)
                THEN <<"UC" \o row \o "_FORMULA_CORRECT", cells[i],
                       ratio_of(ratio_options, formulas[i])>>
                ELSE <<"UC" \o row \o "_FORMULA_INCORRECT", cells[i], "">>]]

grade_row_27_v2(sheet) ==
    LET ratio_options == [r \in {"gal/l", "h/d"} |->
                             IF r = "gal/l" THEN {"=L16/I16", "=L16", "=L16/1"}
                             ELSE {"=L22/I22", "=L22", "=L22/1"}]
        loop == PairsLoop("27", ratio_options, <<"F27", "I27">>, <<sheet.F, sheet.I>>)
    IN  RowResult(loop.formulas_score, <<sheet.G, sheet.J>>, {"gal/l", "h/d"},
                  {"C27", "F27", "I27", "*"} \subseteq sheet.O,
                  sheet.P = "gal/d", loop.formulas_feedback)

grade_row_28_v2(sheet) ==
    LET ratio_options == [r \in {"kg/lb", "in/cm"} |->
                             IF r = "kg/lb" THEN {"=I9/L9", "=1/L9"}
                             ELSE {"=I20/L20", "=1/L20"}]
        loop == PairsLoop("28", ratio_options, <<"F28", "I28", "L28">>,
                          <<sheet.F, sheet.I, sheet.L>>)
    IN  RowResult(loop.formulas_score, <<sheet.G, sheet.J, sheet.M>>,
                  {"kg/lb", "in/cm"},
                  {"C28", "F28", "I28", "L28", "*"} \subseteq sheet.O,
                  sheet.P = "kg/cm^2", loop.formulas_feedback)

\* grade_row_29_v2: used_ratios keeps a ratio from counting twice.
grade_row_29_v2(sheet) ==
    LET ratio_formulas == [r \in {"ft/mi", "yr/d", "d/h"} |->
                              CASE r = "ft/mi" -> {"=L21/I21", "=L21", "=L21/1"}
                                [] r = "yr/d" -> {"=I23/L23", "=1/L23"}
                                [] r = "d/h" -> {"=I22/L22", "=1/L22"}]
        formulas == <<sheet.F, sheet.I, sheet.L>>
        cells == <<"F29", "I29", "L29">>
        ratio(i) == ratio_of(ratio_formulas, formulas[i])
        matched(i) == /\ ratio(i) # ""
                      /\ \A j \in 1..(i - 1) : ratio(j) # ratio(i)
        count == Cardinality({i \in 1..3 : matched(i)})
        formulas_feedback ==
            [i \in 1..3 |->
                IF matched(i) THEN <<"UC29_FORMULA_CORRECT", cells[i], ratio(i)>>
                ELSE <<"UC29_FORMULA_INCORRECT", cells[i], "">>]
    IN  RowResult(2 * count, <<sheet.G, sheet.J, sheet.M>>,
                  {"ft/mi", "yr/d", "d/h"},
                  {"C29", "F29", "I29", "L29", "*"} \subseteq sheet.O,
                  sheet.P \in {"ft/h", "ft/hr"}, formulas_feedback)

\* ---- the calls made
\* A row whose ratio cells hold forms of the row's ratios, a formula of
\* another row or nothing; whose labels are both right or the first one
\* wrong; whose final formula multiplies all cells, adds them or leaves the
\* last one out; whose final unit is right or missing.
UnitRowCall ==
    LET Forms(row) ==
            CASE row = "26" -> {"=L14/I14", "=L14", "=L17/I17", "=L99/I99", ""}
              [] row = "27" -> {"=L16/I16", "=L16", "=L22/I22", "=L99/I99", ""}
              [] row = "28" -> {"=I9/L9", "=1/L9", "=I20/L20", "=L99/I99", ""}
              [] row = "29" -> {"=L21/I21", "=I23/L23", "=1/L22", "=L99/I99", ""}
        Units(row) ==
            CASE row = "26" -> <<"mcg/mg", "ml/tsp", "", "mcg/tsp">>
              [] row = "27" -> <<"gal/l", "h/d", "", "gal/d">>
              [] row = "28" -> <<"kg/lb", "in/cm", "in/cm", "kg/cm^2">>
              [] row = "29" -> <<"ft/mi", "yr/d", "d/h", "ft/h">>
        Cells(row) ==
            IF row \in {"26", "27"}
            THEN <<"C" \o row, "F" \o row, "I" \o row>>
            ELSE <<"C" \o row, "F" \o row, "I" \o row, "L" \o row>>
    IN  \E row \in {"26", "27", "28", "29"} :
        \E F \in Forms(row), I \in Forms(row),
           L \in IF row \in {"26", "27"} THEN {""} ELSE Forms(row),
           G_ok \in BOOLEAN, P_ok \in BOOLEAN,
           final \in {"product", "sum", "short"} :
            LET cells == Cells(row)
                all == {cells[i] : i \in DOMAIN cells}
            IN  /\ fn = "grade_row_" \o row \o "_v2"
                /\ arg = [F |-> F, I |-> I, L |-> L,
                          G |-> IF G_ok THEN Units(row)[1] ELSE "lb",
                          J |-> Units(row)[2], M |-> Units(row)[3],
                          O |-> CASE final = "product" -> all \cup {"*"}
                                  [] final = "sum" -> all
                                  [] final = "short" ->
                                        (all \ {cells[Len(cells)]}) \cup {"*"},
                          P |-> IF P_ok THEN Units(row)[4] ELSE ""]

apply_grade_row_26_v2 ==
    /\ fn = "grade_row_26_v2"
    /\ Return(grade_row_26_v2(arg))

apply_grade_row_27_v2 ==
    /\ fn = "grade_row_27_v2"
    /\ Return(grade_row_27_v2(arg))

apply_grade_row_28_v2 ==
    /\ fn = "grade_row_28_v2"
    /\ Return(grade_row_28_v2(arg))

apply_grade_row_29_v2 ==
    /\ fn = "grade_row_29_v2"
    /\ Return(grade_row_29_v2(arg))

\* ------------------------------------------------- grader specification
InitGraders ==
    /\ PipelineIdle
    /\ \/ StatisticsCall
       \/ ValuesMatchCall
       \/ C40Call
       \/ CurrencyTabCall
       \/ TempCall
       \/ StatisticsSheetCall
       \/ PredictionsCall
       \/ NormalizeCall
       \/ ResolveCall
       \/ IncomeSheetCall
       \/ RenderCall
       \/ SheetsCall
       \/ HistogramCall
       \/ UnitRowCall
    /\ ret = <<>>
    /\ returned = FALSE

NextGraders ==
    \/ apply_check_mean_formula
    \/ apply_check_median_formula
    \/ apply_check_stdev_formula
    \/ apply_check_range_formula
    \/ apply_values_match
    \/ apply_check_c40_calculated_value
    \/ apply_grade_currency_conversion_tab_v2
    \/ apply_grade_temp_conversions_v2
    \/ apply_check_statistics
    \/ apply_check_predictions
    \/ regrade_check_statistics
    \/ regrade_check_predictions
    \/ apply_normalize_time_unit
    \/ apply_normalize_time
    \/ apply_resolve_cell_value
    \/ apply_grade_income_analysis
    \/ apply_check_slope_intercept
    \/ apply_render_feedback
    \/ apply_validate_required_sheets
    \/ apply_validate_ma3_sheets
    \/ apply_check_histogram
    \/ apply_grade_row_26_v2
    \/ apply_grade_row_27_v2
    \/ apply_grade_row_28_v2
    \/ apply_grade_row_29_v2

SpecGraders == InitGraders /\ [][NextGraders]_vars

\* ================================================================ properties

\* Positions of the task inside one student's pass of the grading loop.
InStudent == {"p1_load_submission", "p1_load_grading", "p1_grade", "p1_save",
              "p1_except", "p1_finally"}

\* Positions of the task inside the grading loop.
InGradingLoop == InStudent \cup {"p1_loop"}

\* A student whose pass ends in the loop's except block.
DocumentFails(student) ==
    \/ student.submission = "corrupt"
    \/ student.grading = "missing"
    \/ ~student.save_ok

\* Students whose output has been saved.
Saved == {o[1] : o \in outputs}

\* C1: a set cancel flag stops the grading loop only between two students.
\* While the flag is set and the task is in the grading loop, no further
\* student is started (idx does not move); a student in flight goes on to the
\* next position of its own pass; the loop is left only from the loop head,
\* with every started student either saved or counted as a failure and the
\* student in flight at the time of the request among them.
C1_CancelOnlyBetweenStudents ==
    [][ (cancel_requested /\ pc \in InGradingLoop) =>
            /\ idx' = idx
            /\ (pc \in InStudent => pc' \in InGradingLoop)
            /\ (pc' \notin InGradingLoop =>
                    /\ pc = "p1_loop"
                    /\ pc' = "chk5"
                    /\ graded_count + error_count = idx
                    /\ \A i \in 1..idx :
                          (i \in Saved) # DocumentFails(batch[i])) ]_vars

\* The loop has stopped on the flag after student 1 was started and before
\* student 2: the flag was set during student 1's pass, whose output is saved.
C1_Witness ==
    /\ pc = "chk5"
    /\ cancel_requested
    /\ idx = 1
    /\ Len(batch) = 2
    /\ Saved = {1}
    /\ graded_count = 1

\* The grading phase has ended with the flag set: the loop stopped on it, or
\* it was set during the last student and the task's own check meets it.
CancelledInGrading ==
    /\ pc = "chk5"
    /\ cancel_requested

\* C2 as stated: when the grading phase has ended on a cancellation, the
\* number of saved outputs equals the number of students started.
C2_OutputsEqualStarted ==
    CancelledInGrading => Cardinality(outputs) = idx

\* C2: when the grading phase has ended on a cancellation, the saved outputs
\* are those of the started students whose documents did not fail; each other
\* started student is counted once in error_count, so the number of saved
\* outputs is the number started less error_count, and no output is partial
\* (each holds the tabs of a whole pass).
C2_OutputsEqualStartedLessFailed ==
    CancelledInGrading =>
        /\ Saved = {i \in 1..idx : ~DocumentFails(batch[i])}
        /\ Cardinality(outputs) = idx - error_count
        /\ graded_count = Cardinality(outputs)
        /\ \A o \in outputs : o[2] = TabsWritten(batch[o[1]])

\* The loop stopped on the flag before student 2; student 1, in flight when
\* the flag was set, failed and left no output.
C2_Witness ==
    /\ CancelledInGrading
    /\ idx = 1
    /\ Len(batch) = 2
    /\ error_count = 1
    /\ outputs = {}

\* C3: a student's document failure is handled inside the student's own pass.
\* The except block logs it once, adds one to error_count and hands over to
\* the finally block, from which the loop goes on to its head; no step inside
\* the grading loop writes status or error; and when the loop ends without a
\* cancellation every student of the batch has been processed, the failed
\* ones counted and the others saved.
C3_DocumentFailureContained ==
    [][ /\ (pc \in InGradingLoop => status' = status /\ error' = error)
        /\ (pc \in InStudent /\ pc' # pc => pc' \in InGradingLoop)
        /\ (pc = "p1_except" /\ pc' # pc =>
                /\ pc' = "p1_finally"
                /\ error_count' = error_count + 1
                /\ errors_logged' = errors_logged + 1)
        /\ (pc = "p1_finally" /\ pc' # pc => pc' = "p1_loop")
        /\ (pc = "chk5" /\ ~cancel_requested =>
                /\ idx = Len(batch)
                /\ error_count =
                     Cardinality({i \in 1..idx : DocumentFails(batch[i])})
                /\ errors_logged = error_count
                /\ Saved = {i \in 1..idx : ~DocumentFails(batch[i])}) ]_vars

\* Student 1's document failed and student 2 was graded and saved after it;
\* the run is still running.
C3_Witness ==
    /\ pc = "chk5"
    /\ ~cancel_requested
    /\ status = "running"
    /\ Len(batch) = 2
    /\ DocumentFails(batch[1])
    /\ Saved = {2}
    /\ error_count = 1

\* C4: the documents a student's pass opened are closed before the loop
\* reaches its head again, whichever way the pass ended.  Outside a student's
\* pass no document is open; inside it every open document belongs to the
\* student being processed and is held by that pass's own reference.
C4_HandlesReleased ==
    /\ (pc \notin InStudent => open_handles = {})
    /\ (pc \in InStudent =>
            /\ \A h \in open_handles : h[1] = idx
            /\ open_handles \subseteq
                 (Handle(student_wb, "submission")
                     \cup Handle(grading_wb, "grading")))

\* The second student's pass begins after a first student whose grading sheet
\* failed to load while the submission was open: nothing is open.
C4_Witness ==
    /\ pc = "p1_load_submission"
    /\ idx = 2
    /\ batch[1].grading = "missing"
    /\ open_handles = {}

LiveTasks == Len(pending) + (IF pc = "none" THEN 0 ELSE 1)

\* C6 as stated: for every interleaving of start, reset and cancel requests
\* at most one pipeline task is started and not yet finished; a start request
\* that arrives while one is live starts no second one.
C6_AtMostOneTask ==
    LiveTasks <= 1

\* The phase a position of the task belongs to: 1 import, 2 prepare, 3 grade,
\* 4 chart export, 5 chart insert, 6 cleanup, 7 summary; 0 is the workspace
\* and folder setup that precedes them.
Phase(p) ==
    CASE p \in {"s1", "s2"} -> 0
      [] p = "s3" -> 1
      [] p = "s4" -> 2
      [] p \in {"s5", "chk5"} \cup InGradingLoop -> 3
      [] p \in {"s6", "p2_loop", "chk6"} -> 4
      [] p = "s7" -> 5
      [] p = "s8" -> 6
      [] p = "s8_master" -> 7

InPhases == {"s1", "s2", "s3", "s4", "s5", "chk5", "s6", "p2_loop", "chk6",
             "s7", "s8", "s8_master"} \cup InGradingLoop

\* C7: within one run the task moves through the phases in the order import,
\* prepare, grade, chart export, chart insert, cleanup, summary.  A step of
\* the task stays in its phase or enters the next one, never an earlier one
\* and never one further on; a run begins before the first phase; the run is
\* reported completed only from the last phase; and a run leaves the
\* sequence early only by an error or a cancellation.
C7_PhasesInOrder ==
    [][ /\ (pc \in InPhases /\ pc' \in InPhases =>
                Phase(pc') \in {Phase(pc), Phase(pc) + 1})
        /\ (pc \notin InPhases /\ pc' \in InPhases => Phase(pc') = 0)
        /\ (pc \in InPhases /\ pc' \notin InPhases =>
                /\ pc' = "finally"
                /\ status' \in {"completed", "error", "cancelled"}
                /\ (status' = "completed" => Phase(pc) = 7)
                /\ (status' = "cancelled" => Phase(pc) \in {3, 4})) ]_vars

\* The task is in the summary phase, having passed every phase before it.
C7_Witness ==
    /\ pc = "s8_master"
    /\ progress = 8
    /\ idx = Len(batch)
    /\ idx2 = Len(batch)
    /\ Len(batch) > 0

\* C8: the running pipeline never clears the cancellation flag.  The flag
\* goes from set to clear only in a step taken while the loop is outside the
\* task, and that step is a reset of the state: POST /reset, or the reset an
\* accepted POST /grade makes for its new run.  Reaching completed, error or
\* cancelled leaves the flag as it was.
C8_FlagClearedOnlyByReset ==
    [][ /\ (cancel_requested /\ ~cancel_requested' =>
                /\ pc = "none"
                /\ pc' = "none"
                /\ status' \in {"idle", "running"}
                /\ progress' = 0
                /\ logs' = <<>>)
        /\ (cancel_requested /\ pc # "none" => cancel_requested') ]_vars

\* The flag was set during the run, the run has ended cancelled after the
\* grading phase, and the flag is still set.
C8_Witness ==
    /\ pc = "finally"
    /\ status = "cancelled"
    /\ cancel_requested
    /\ progress = 5
    /\ idx > 0

\* C9 as stated: while status is running a step that writes a field other
\* than the cancellation flag is a step of the pipeline task, and the task
\* begins from the state the reset before the run left.
C9_OnlyTaskWritesWhileRunning ==
    [][ /\ (/\ status = "running"
            /\ <<status, current_step, progress, logs, error, output_path>>'
                  # <<status, current_step, progress, logs, error, output_path>>)
               => pc # "none"
        /\ (pc = "none" /\ pc' = "s1")
               => /\ status = "running"
                  /\ current_step = "initializing"
                  /\ progress = 0
                  /\ logs = <<>>
                  /\ error = None
                  /\ output_path = None ]_vars

\* The required sheets a student's submission lacks.
Lacks(student) == missing_sheets(validate_required_sheets(student.sheetnames))

\* The batch of the claim: one student lacks a required sheet, and nothing
\* is wrong with any student's documents or with a student's tabs in
\* particular.
OneLacksSheet ==
    /\ Cardinality({i \in DOMAIN batch : Lacks(batch[i]) # {}}) = 1
    /\ \A i \in DOMAIN batch :
          ~DocumentFails(batch[i]) /\ batch[i].raises = {}

\* C10 as stated: for a batch in which one student lacks a required sheet, a run that
\* is neither cancelled nor stopped by an error elsewhere in the pipeline
\* grades every student.  After the grading phase every student of the batch
\* has a saved output, no student is counted as an error, the output of the
\* student who lacks the sheet holds scores for the sheets present and none
\* for the missing one (it earns no credit), and one warning has been
\* logged; the run then ends completed, still with that one warning when no
\* chart export failed.
C10_MissingSheetBatchCompletes ==
    /\ (OneLacksSheet /\ pc = "chk5" /\ ~cancel_requested =>
            /\ Saved = DOMAIN batch
            /\ error_count = 0
            /\ errors_logged = 0
            /\ \A o \in outputs : o[2] = RequiredSet \ Lacks(batch[o[1]])
            /\ skipped_count = 1
            /\ warnings = 1)
    /\ (OneLacksSheet /\ pc = "finally" /\ ~cancel_requested
            /\ status # "error" =>
            /\ status = "completed"
            /\ Saved = DOMAIN batch
            /\ warnings = 1 + export_error_count)

\* One of the four checks has returned for the formula in arg.
CheckReturned == returned /\ fn \in CheckFunctions

\* The candidate meets the comma-for-colon condition of its check.
CommaApplies == _detect_comma_instead_of_colon(arg.formula, col_map(arg.col))

\* C11 as stated: a candidate with an accepted function that is not FULL and
\* meets both the range-offset condition and the comma-for-colon condition is
\* classified HIGH_PARTIAL (0.75), the stricter of the two tiers.
C11_StricterPartialTierWins ==
    (/\ CheckReturned
     /\ ret \in {CREDIT_RANGE_OFFSET, CREDIT_COMMA_NOT_COLON}
     /\ _detect_range_offset(arg.formula, col_map(arg.col), 14, 63, 3)
     /\ CommaApplies)
        => ret = CREDIT_RANGE_OFFSET

\* The expected form of the check f for the column col and its accepted
\* alternate forms, with the arguments in the given shape.
AcceptedForms(f, col, shape) ==
    LET AcceptedHeads ==
            CASE f = "_check_mean_formula" -> {"AVERAGE", "average"}
              [] f = "_check_median_formula" -> {"MEDIAN"}
              [] f = "_check_stdev_formula" ->
                    {"STDEV", "STDEV.S", "_xlfn.STDEV.S", "-STDEV.S"}
              [] OTHER -> {}
    IN  IF f = "_check_range_formula"
        THEN {RangeFormula(<<"-", "MIN">>,
                           Arguments(shape, col_map(col), 14, 63, <<st, st>>)) :
                  st \in correct_range_patterns}
        ELSE {OneCallFormula(head,
                             Arguments(shape, col_map(col), 14, 63, <<st, st>>)) :
                  head \in AcceptedHeads, st \in range_patterns}

\* The candidate is such a form with one more cell after the range, so that
\* it matches the comma-for-colon pattern as well.
QualifiesFullWithComma ==
    /\ arg.formula \in AcceptedForms(fn, arg.col, "range and cell")
    /\ CommaApplies

C13_RangeOffsetExactly ==
    LET normalized == _normalize_formula(arg.formula)
        matches == RangeMatches(normalized, col_map(arg.col))
        i == CHOOSE x \in matches : \A y \in matches : x <= y
        ds == normalized[i].row - 14
        de == normalized[i + 2].row - 63
    IN  (/\ CheckReturned
         /\ fn = "_check_mean_formula"
         /\ _extract_function_name(arg.formula) = "AVERAGE"
         /\ matches # {}
         /\ ~CommaApplies
         /\ ret # CREDIT_FULL)
            => (ret = CREDIT_RANGE_OFFSET
                    <=> /\ ds # 0
                        /\ de # 0
                        /\ Abs(ds) <= 3
                        /\ Abs(de) <= 3
                        /\ (ds > 0) = (de > 0))

\* _values_match has returned for two numbers, the expected one not zero.
MatchReturnedNonZero ==
    /\ returned
    /\ fn = "_values_match"
    /\ arg.actual # NoValue
    /\ arg.expected # NoValue
    /\ arg.expected[1] # 0

\* C14: against an expected value other than zero the comparison accepts
\* exactly when |actual - expected| / |expected| <= 1%; a relative difference
\* of exactly 1% is accepted and a larger one is rejected.
C14_RelativeToleranceInclusive ==
    MatchReturnedNonZero =>
        (ret <=> 100 * Abs(arg.actual[1] - arg.expected[1]) <= Abs(arg.expected[1]))

\* 101 has been accepted against 100: a relative difference of exactly 1%.
C14_Witness ==
    /\ MatchReturnedNonZero
    /\ arg.expected = Num(100 * Scale)
    /\ arg.actual = Num(101 * Scale)
    /\ ret = TRUE

\* C15 as stated: against an expected value of exactly zero the comparison
\* accepts exactly when |actual| <= 0.01, an actual value of exactly 0.01
\* being accepted.
C15_AbsoluteToleranceInclusive ==
    /\ (/\ returned
        /\ fn = "_values_match"
        /\ arg.actual # NoValue
        /\ arg.expected = Num(0))
            => (ret <=> Abs(arg.actual[1]) <= 1)
    /\ (/\ returned
        /\ fn = "_check_c40_calculated_value"
        /\ arg.c40 # NoValue
        /\ arg.a40 = Num(32 * Scale))
            => (ret <=> Abs(arg.c40[1]) <= 1)

C17_AggregationMonotonic ==
    [][(/\ returned
        /\ returned'
        /\ fn \in {"check_statistics", "check_predictions"})
            => ret'.score >= ret.score]_vars

\* A sheet whose row 18 had an off-by-one range in every column has been
\* graded again with one of those cells corrected, the rest being right:
\* 22.5 points have become 23.
C17_Witness ==
    /\ returned
    /\ fn = "check_statistics"
    /\ arg.edits = 1
    /\ ret.score = 2300

\* C18 as stated: 8 of the 17 cells E19:E35 correct and 9 incorrect give a
\* score of exactly 2.82.
C18_ProportionalTwoDecimals ==
    (/\ returned
     /\ fn = "check_predictions"
     /\ Cardinality({row \in 19..35 : arg.sheet[row] = PredictionCell("correct")}) = 8)
        => ret.score = 282

\* C19 as stated: normalizing a normalized unit label changes nothing,
\* normalize(normalize(x)) = normalize(x), under the substitutions hr -> h,
\* day -> d, year -> yr and y/ -> yr/.
C19_NormalizationIdempotent ==
    /\ (returned /\ fn = "normalize_time_unit") => normalize_time_unit(TRUE, ret) = ret
    /\ (returned /\ fn = "normalize_time") => normalize_time(ret) = ret

\* C20: for a cell that holds exactly one reference to a second cell of the
\* sheet the resolver returns the second cell's own content, as text without
\* the surrounding white space; when the second cell holds a reference
\* itself, what is returned is that reference formula and not the content of
\* the cell it names.
C20_OneHopResolution ==
    (/\ returned
     /\ fn = "_resolve_cell_value"
     /\ arg.sheet[arg.cell_ref].t = "ref")
        => LET second == arg.sheet[arg.sheet[arg.cell_ref].to]
           IN  /\ second.t = "none" => ret.s = "" /\ ret.t = "text"
               /\ second.t = "number" => ret.t = "text" /\ ret.s = second.s
               /\ second.t \in {"text", "formula"} =>
                      ret.t = second.t /\ ret.s = second.s /\ ~ret.pad
               /\ second.t = "ref" =>
                      /\ ret.t = "ref"
                      /\ ret.to = second.to
                      /\ ret.style = second.style
                      /\ ~ret.pad

\* C16 holds =F27, F27 holds =$G$5 and G5 holds a country name: the text of
\* F27's formula has been returned, not the country.
C20_Witness ==
    /\ returned
    /\ fn = "_resolve_cell_value"
    /\ arg.sheet["C16"].t = "ref"
    /\ arg.sheet["C16"].to = "F27"
    /\ arg.sheet["F27"].t = "ref"
    /\ arg.sheet["F27"].to = "G5"
    /\ arg.sheet["G5"].s = "France"
    /\ ret.t = "ref"
    /\ ret.to = "G5"

\* C21 as stated: grading a sheet in which a required formula cell is
\* missing, blank or no formula never raises: the check of that cell gives
\* zero credit with its missing code, and the tab grader returns a complete
\* result.
C21_MissingCellsNeverRaise ==
    /\ (/\ returned
        /\ fn = "grade_income_analysis"
        /\ \/ arg.B30.t # "str" \/ arg.B30.f = <<>> \/ arg.B30.f[1] # Sym("=")
           \/ arg.B31.t # "str" \/ arg.B31.f = <<>> \/ arg.B31.f[1] # Sym("=")
           \/ \E row \in 19..35 : ~arg.E[row].is_formula)
            => ret.raised = None
    /\ (/\ returned
        /\ fn = "check_slope_intercept"
        /\ \/ arg.B30.t # "str" \/ arg.B30.f = <<>> \/ arg.B30.f[1] # Sym("=")
        /\ \/ arg.B31.t # "str" \/ arg.B31.f = <<>> \/ arg.B31.f[1] # Sym("="))
            => ret = <<0, <<"IA_SLOPE_MISSING", "IA_INTERCEPT_MISSING">>>>

\* C22: rendering a feedback item whose code has no template never fails:
\* the item becomes the line "[code] params", and every other item of the
\* list is rendered too, in its place.
C22_UnknownCodeFallsBack ==
    (returned /\ fn = "render_feedback")
        => /\ Len(ret.lines) = Len(arg)
           /\ \A i \in DOMAIN arg :
                 feedback_map(arg[i].code) = <<>>
                    => ret.lines[i] = "[" \o arg[i].code \o "] " \o arg[i].params.str
           /\ \A i \in DOMAIN arg :
                 (feedback_map(arg[i].code) # <<>>
                    /\ feedback_map(arg[i].code)[1].fields \subseteq arg[i].params.keys)
                    => ret.lines[i] = feedback_map(arg[i].code)[1].text

\* An unknown code stood between two known ones and all three lines are in
\* the text returned.
C22_Witness ==
    /\ returned
    /\ fn = "render_feedback"
    /\ Len(arg) = 3
    /\ arg[2].code = "STAT_MEAN_OK"
    /\ ret.text = "Name is missing in B1.\n[STAT_MEAN_OK] {'cell': 'B30'}\nNo SLOPE formula found in B30."

\* C23 as stated: for the required sheets of either assignment, a sheet
\* whose name differs from the required one in letter case and in leading
\* or trailing whitespace only is found, and is not reported missing.
C23_SheetsMatchedAnyCaseAndPadding ==
    (/\ returned
     /\ fn \in {"validate_required_sheets", "_validate_ma3_sheets"})
        => \A req \in (IF fn = "_validate_ma3_sheets"
                       THEN {"Analysis", "Visualization"}
                       ELSE RequiredSet) :
              (\E s \in arg : LowerStrip(s) = LowerStrip(req))
                 => req \notin ret.missing_sheets

\* C24 as stated: the feedback list of a category starts with one summary
\* code, and that code is the all-correct one exactly when the total is the
\* maximum, the none-correct one exactly when the total is zero, and a
\* partial one otherwise; no other summary code follows it.
C24_OneSummaryCodeFirst ==
    (/\ returned
     /\ fn \in {"check_statistics", "check_predictions", "check_histogram"})
        => LET all_correct == {"STATS_ALL_CORRECT", "IA_PREDICTIONS_ALL_CORRECT",
                               "HIST_ALL_CORRECT"}
               none_correct == {"STATS_NONE_CORRECT", "IA_PREDICTIONS_NONE_CORRECT",
                                "HIST_NONE_CORRECT"}
               partial == {"STATS_PARTIAL_CREDIT", "STATS_PARTIAL",
                           "IA_PREDICTIONS_PARTIAL", "HIST_PARTIAL"}
               maximum == IF fn = "check_statistics" THEN 2400 ELSE 600
           IN  /\ ret.feedback # <<>>
               /\ ret.feedback[1] \in all_correct <=> ret.score = maximum
               /\ ret.feedback[1] \in none_correct <=> ret.score = 0
               /\ ret.feedback[1] \in partial <=> ret.score \notin {0, maximum}
               /\ \A i \in 2..Len(ret.feedback) :
                     ret.feedback[i] \notin all_correct \cup none_correct \cup partial

C26_RequestsServedDuringTask ==
    (pc \in InGradingLoop /\ status = "running")
        => /\ ENABLED get_state
           /\ Len(logs) < MaxLogs => ENABLED cancel_pipeline

\* C27 as stated: when run_pipeline_task returns, the status is completed,
\* error or cancelled and not running any more; and no step of a task
\* changes a terminal status, which only an earlier run can have reached.
C27_OneTerminalStatusPerRun ==
    [][/\ (pc = "finally" /\ pc' = "none")
            => status' \in {"completed", "error", "cancelled"}
       /\ (pc # "none" /\ status \in {"completed", "error", "cancelled"})
            => status' = status]_vars

\* C28 as stated: the saved output of every student counted as graded has
\* the scores of every required sheet present in the student's submission.
C28_PresentSheetsScored ==
    \A o \in outputs : o[2] = RequiredSet \ Lacks(batch[o[1]])

\* C29 as stated: a candidate formula gets the same credit tier as the
\* formula that differs from it only in "$" markers, spaces and letter case
\* (here: its form without "$", without spaces and in upper case).
C29_MarkersSpacesCaseKeepTier ==
    (returned /\ fn \in CheckFunctions) =>
        LET kept == SelectSeq(arg.formula, NotSpace)
            plain == [i \in DOMAIN kept |->
                         [kept[i] EXCEPT !.v = Upper(@), !.dc = FALSE, !.dr = FALSE]]
        IN  ret = check_func(fn, plain, arg.col)

\* C30 as stated: in each of the row graders 26 to 29, two ratio-formula
\* cells that hold forms of the same conversion ratio earn the 2 formula
\* points of that ratio once: of the cells that hold a form of one ratio, at
\* most one is credited.
C30_SameRatioCreditedOnce ==
    (returned /\ fn \in {"grade_row_26_v2", "grade_row_27_v2",
                         "grade_row_28_v2", "grade_row_29_v2"}) =>
        \A i, j \in DOMAIN ret.formulas_feedback :
            (/\ i # j
             /\ ret.formulas_feedback[i][3] # ""
             /\ ret.formulas_feedback[j][3] # "")
                => ret.formulas_feedback[i][3] # ret.formulas_feedback[j][3]

=============================================================================
